---- MODULE Spec2Model ----
(***************************************************************************)
(* A model of melee/console.py (libmelee): the Slippi event-stream         *)
(* dispatcher (Console.__handle_slippstream_events), the record decoders,  *)
(* the menu decoder and the frame assembly loop of Console.step.           *)
(*                                                                         *)
(* Conventions.                                                            *)
(*  - A buffer is a sequence of bytes (0..255); offset o of the source is  *)
(*    element o+1 of the sequence.                                         *)
(*  - A float is held as a fixed-point integer counting quarters           *)
(*    (value * 4, truncated toward zero, saturated at FixHuge); the        *)
(*    decoders compute it from the four big-endian IEEE-754 bytes.  The    *)
(*    inputs of the model are floats that are exact multiples of 0.25.     *)
(*  - An enum member is held as its integer value (Action, Character) or   *)
(*    as its name (Stage, Menu, SubMenu, ControllerStatus).                *)
(*  - Code of the package that lies outside console.py (the enums, the     *)
(*    GameState/PlayerState constructors, stages.EDGE_GROUND_POSITION) is  *)
(*    modelled from its documented behaviour; these definitions are marked *)
(*    in the model map.                                                    *)
(***************************************************************************)
EXTENDS Integers, Sequences, FiniteSets, TLC

(***************************************************************************)
(* Bytes and the numpy readers  np.ndarray((1,), fmt, buf, off)[0]         *)
(***************************************************************************)
Byte == 0..255

\* Saturation value of the fixed-point float representation.
FixHuge == 1073741824

Pow2(n) == 2^n

\* np.ndarray raises TypeError when the buffer is too small for the array.
HasBytes(buf, off, n) == off + n <= Len(buf)

\* ">B"
U8(buf, off) == buf[off + 1]

\* ">H"
U16(buf, off) == buf[off + 1] * 256 + buf[off + 2]

\* ">i": two's complement, big-endian
I32(buf, off) ==
    LET u == (buf[off + 1] % 128) * 16777216 + buf[off + 2] * 65536
             + buf[off + 3] * 256 + buf[off + 4]
    IN  IF buf[off + 1] >= 128 THEN (u - 1073741824) - 1073741824 ELSE u

\* ">f": sign, biased exponent and mantissa of the IEEE-754 single
F32Sign(buf, off) == buf[off + 1] \div 128
F32Exp(buf, off) == (buf[off + 1] % 128) * 2 + buf[off + 2] \div 128
F32Man(buf, off) == (buf[off + 2] % 128) * 65536 + buf[off + 3] * 256 + buf[off + 4]

\* The magnitude of the float, in quarters, truncated.
F32Mag(buf, off) ==
    LET e == F32Exp(buf, off)
        sig == 8388608 + F32Man(buf, off)
    IN  IF e = 0 THEN 0
        ELSE IF e >= 148
             THEN (IF e - 148 > 6 THEN FixHuge ELSE sig * Pow2(e - 148))
             ELSE (IF 148 - e > 24 THEN 0 ELSE sig \div Pow2(148 - e))

\* ">f" as a fixed-point number of quarters
F32(buf, off) ==
    IF F32Sign(buf, off) = 1 THEN 0 - F32Mag(buf, off) ELSE F32Mag(buf, off)

\* float > 0 (exact on the bits: a NaN compares false)
F32Positive(buf, off) ==
    /\ F32Sign(buf, off) = 0
    /\ \/ F32Exp(buf, off) > 0
       \/ F32Man(buf, off) > 0
    /\ ~(F32Exp(buf, off) = 255 /\ F32Man(buf, off) > 0)

\* int(float): truncation toward zero
IntOf(fix) == IF fix < 0 THEN 0 - ((0 - fix) \div 4) ELSE fix \div 4

(***************************************************************************)
(* The enums of the package (melee/enums.py, melee/slippstream.py)         *)
(***************************************************************************)
\* slippstream.EventType
GECKO_CODES == 16
PAYLOADS == 53
GAME_START == 54
PRE_FRAME == 55
POST_FRAME == 56
GAME_END == 57
FRAME_START == 58
ITEM_UPDATE == 59
FRAME_BOOKEND == 60

EventTypeValues == {GECKO_CODES, PAYLOADS, GAME_START, PRE_FRAME, POST_FRAME,
                    GAME_END, FRAME_START, ITEM_UPDATE, FRAME_BOOKEND}

\* enums.Action members the decoder names, and the member test of Action(v)
ON_HALO_DESCENT == 12
ON_HALO_WAIT == 13
TURNING == 18
DASHING == 20
NEUTRAL_ATTACK_1 == 44
DAIR == 69
EDGE_CATCHING == 252
UNKNOWN_ANIMATION == 65535
LastActionValue == 398

IsAction(v) == v <= LastActionValue \/ v = UNKNOWN_ANIMATION

\* enums.Character(v): the member test
UNKNOWN_CHARACTER == 255
LastCharacterValue == 32

IsCharacter(v) == v <= LastCharacterValue \/ v = UNKNOWN_CHARACTER

\* enums.to_internal_stage(slippi stage id)
to_internal_stage(v) ==
    CASE v = 2 -> "FOUNTAIN_OF_DREAMS"
      [] v = 3 -> "POKEMON_STADIUM"
      [] v = 8 -> "YOSHIS_STORY"
      [] v = 28 -> "DREAMLAND"
      [] v = 31 -> "BATTLEFIELD"
      [] v = 32 -> "FINAL_DESTINATION"
      [] OTHER -> "NO_STAGE"

\* enums.Stage(v): the internal stage values; "ValueError" for a non-member
StageOf(v) ==
    CASE v = 0 -> "NO_STAGE"
      [] v = 6 -> "YOSHIS_STORY"
      [] v = 8 -> "FOUNTAIN_OF_DREAMS"
      [] v = 18 -> "POKEMON_STADIUM"
      [] v = 24 -> "BATTLEFIELD"
      [] v = 25 -> "FINAL_DESTINATION"
      [] v = 26 -> "DREAMLAND"
      [] v = 29 -> "RANDOM_STAGE"
      [] OTHER -> "ValueError"

\* enums.ProjectileSubtype(v): the member test
UNKNOWN_PROJECTILE == 65535
LastProjectileValue == 234

IsProjectileSubtype(v) == v <= LastProjectileValue \/ v = UNKNOWN_PROJECTILE

\* enums.ControllerStatus(v)
ControllerStatusOf(v) ==
    CASE v = 0 -> "CONTROLLER_HUMAN"
      [] v = 1 -> "CONTROLLER_CPU"
      [] v = 3 -> "CONTROLLER_UNPLUGGED"
      [] OTHER -> "ValueError"

\* enums.SubMenu(v)
SubMenuOf(v) ==
    CASE v = 0 -> "MAIN_MENU_SUBMENU"
      [] v = 1 -> "ONEP_MODE_SUBMENU"
      [] v = 2 -> "VS_MODE_SUBMENU"
      [] v = 8 -> "ONLINE_PLAY_SUBMENU"
      [] v = 18 -> "NAME_ENTRY_SUBMENU"
      [] OTHER -> "ValueError"

\* stages.EDGE_GROUND_POSITION[stage], in quarters; -1 stands for KeyError
EDGE_GROUND_POSITION(stage) ==
    CASE stage = "FINAL_DESTINATION" -> 342
      [] stage = "BATTLEFIELD" -> 273
      [] stage = "POKEMON_STADIUM" -> 351
      [] stage = "DREAMLAND" -> 309
      [] stage = "FOUNTAIN_OF_DREAMS" -> 254
      [] stage = "YOSHIS_STORY" -> 224
      [] OTHER -> -1

(***************************************************************************)
(* melee/gamestate.py: the objects the decoders fill in                    *)
(***************************************************************************)
Ports == 1..4

\* ControllerState(): sticks are counted in eighths, (0.5, 0.5) is <<4, 4>>;
\* button is the set of pressed buttons.
NewControllerState ==
    [main_stick |-> <<4, 4>>, c_stick |-> <<4, 4>>, button |-> {}]

\* PlayerState().  The class is defined outside console.py, and console.py
\* writes the flag iasa in __fixiasa only: `iasa` is the value the constructor
\* leaves in it.
NewPlayerState(iasa) ==
    [character |-> UNKNOWN_CHARACTER, character_selected |-> UNKNOWN_CHARACTER,
     x |-> 0, y |-> 0, percent |-> 0, shield_strength |-> 240, stock |-> 0,
     facing |-> TRUE, action |-> UNKNOWN_ANIMATION, action_frame |-> 0,
     invulnerable |-> FALSE, invulnerability_left |-> 0,
     hitlag |-> FALSE, hitstun_frames_left |-> 0, jumps_left |-> 0,
     on_ground |-> TRUE,
     speed_air_x_self |-> 0, speed_y_self |-> 0, speed_x_attack |-> 0,
     speed_y_attack |-> 0, speed_ground_x_self |-> 0,
     cursor_x |-> 0, cursor_y |-> 0, coin_down |-> FALSE,
     controller_status |-> "CONTROLLER_UNPLUGGED",
     off_stage |-> FALSE, iasa |-> iasa, moonwalkwarning |-> FALSE,
     controller_state |-> NewControllerState,
     ecb_top |-> <<0, 0>>, ecb_bottom |-> <<0, 0>>,
     ecb_left |-> <<0, 0>>, ecb_right |-> <<0, 0>>,
     costume |-> 0, cpu_level |-> 0, is_holding_cpu_slider |-> FALSE]

\* The frame index of a game that has not started.
NO_FRAME == -10000

\* GameState().  player is the dict of PlayerState by port; ports is the
\* insertion order of its keys (the order dict.items() iterates in).
NewGameState ==
    [frame |-> NO_FRAME, stage |-> "FINAL_DESTINATION",
     menu_state |-> "IN_GAME", submenu |-> "UNKNOWN_SUBMENU",
     ports |-> <<>>, player |-> <<>>,
     projectiles |-> <<>>, stage_select_cursor_x |-> 0,
     stage_select_cursor_y |-> 0, ready_to_start |-> 0,
     distance |-> 0, menu_selection |-> 0]

HasPlayer(gamestate, port) == port \in DOMAIN gamestate.player

\* gamestate.player[port] = playerstate
SetPlayer(gamestate, port, playerstate) ==
    [gamestate EXCEPT
       !.ports = IF HasPlayer(gamestate, port) THEN @ ELSE Append(@, port),
       !.player = [q \in (DOMAIN @) \cup {port} |->
                     IF q = port THEN playerstate ELSE @[q]]]

\* if port not in gamestate.player: gamestate.player[port] = PlayerState()
EnsurePlayer(iasa, gamestate, port) ==
    IF HasPlayer(gamestate, port) THEN gamestate
    ELSE SetPlayer(gamestate, port, NewPlayerState(iasa))

\* The result of a decoder: the console fields, the snapshot being built and
\* the exception that left the decoder ("" for a normal return).
Result(self, gamestate, exc) ==
    [self |-> self, gamestate |-> gamestate, exc |-> exc]

(***************************************************************************)
(* Console.__game_start                                                    *)
(***************************************************************************)
\* version.parse(a) < version.parse(b) on release triples
\* VersionLess with <= for the last component: 3.0.0 counts as old.
VersionLessOrEqual(a, b) ==
    \/ a[1] < b[1]
    \/ a[1] = b[1] /\ a[2] < b[2]
    \/ a[1] = b[1] /\ a[2] = b[2] /\ a[3] <= b[3]

\* version.parse(a) < version.parse(b), for triples of numbers
VersionLess(a, b) ==
    \/ a[1] < b[1]
    \/ a[1] = b[1] /\ a[2] < b[2]
    \/ a[1] = b[1] /\ a[2] = b[2] /\ a[3] < b[3]

\* self._cpu_level[i] after the two loops over the four player blocks
CpuLevelAt(event_bytes, i) ==
    IF U8(event_bytes, \H66 + \H24 * i) # 1 THEN 0
    ELSE U8(event_bytes, \H74 + \H24 * i)

\* The two loops over the four player blocks that store the costumes and
\* the raw CPU levels: block i is stored when the buffer holds its byte, and
\* the first block whose byte is missing ends the loop with a TypeError.
BlockBytes(event_bytes, off, old) ==
    [i \in 0..3 |-> IF HasBytes(event_bytes, off + \H24 * i, 1)
                    THEN U8(event_bytes, off + \H24 * i) ELSE old[i]]

\* __game_start from the stage id on (lines 378-391): every field is stored
\* as soon as it is read, so a record that ends early leaves the fields read
\* before its end.
GameStartFields(self, gamestate, event_bytes) ==
    IF ~HasBytes(event_bytes, \H13, 2)
    THEN Result(self, gamestate, "TypeError")
    ELSE IF ~HasBytes(event_bytes, \H68 + \H24 * 3, 1)
    THEN Result([self EXCEPT
                   !.current_stage = to_internal_stage(U16(event_bytes, \H13)),
                   !.costumes = BlockBytes(event_bytes, \H68, @)],
                gamestate, "TypeError")
    ELSE IF ~HasBytes(event_bytes, \H74 + \H24 * 3, 1)
    THEN Result([self EXCEPT
                   !.current_stage = to_internal_stage(U16(event_bytes, \H13)),
                   !.costumes = BlockBytes(event_bytes, \H68, @),
                   !.cpu_level = BlockBytes(event_bytes, \H74, @)],
                gamestate, "TypeError")
    ELSE Result([self EXCEPT
                   !.current_stage = to_internal_stage(U16(event_bytes, \H13)),
                   !.costumes = BlockBytes(event_bytes, \H68, @),
                   !.cpu_level = [i \in 0..3 |-> CpuLevelAt(event_bytes, i)]],
                gamestate, "")

\* game_start without the reset of self._frame of line 370.
game_startKeepsFrame(self, gamestate, event_bytes) ==
    IF ~HasBytes(event_bytes, 3, 1)
    THEN Result(self, gamestate, "TypeError")
    ELSE IF U8(event_bytes, 1) < 3 /\ ~self.allow_old_version
    THEN Result([self EXCEPT
                   !.slp_version = <<U8(event_bytes, 1), U8(event_bytes, 2),
                                     U8(event_bytes, 3)>>,
                   !.use_manual_bookends = FALSE],
                gamestate, "SlippiVersionTooLow")
    ELSE GameStartFields(
             [self EXCEPT
                !.slp_version = <<U8(event_bytes, 1), U8(event_bytes, 2),
                                  U8(event_bytes, 3)>>,
                !.use_manual_bookends =
                    self.allow_old_version
                      /\ VersionLess(<<U8(event_bytes, 1), U8(event_bytes, 2),
                                       U8(event_bytes, 3)>>, <<3, 0, 0>>)],
             gamestate, event_bytes)

game_start(self, gamestate, event_bytes) ==
    IF ~HasBytes(event_bytes, 3, 1)
    THEN Result([self EXCEPT !.frame = NO_FRAME], gamestate, "TypeError")
    ELSE IF U8(event_bytes, 1) < 3 /\ ~self.allow_old_version
    THEN Result([self EXCEPT
                   !.frame = NO_FRAME,
                   !.slp_version = <<U8(event_bytes, 1), U8(event_bytes, 2),
                                     U8(event_bytes, 3)>>,
                   !.use_manual_bookends = FALSE],
                gamestate, "SlippiVersionTooLow")
    ELSE GameStartFields(
             [self EXCEPT
                !.frame = NO_FRAME,
                !.slp_version = <<U8(event_bytes, 1), U8(event_bytes, 2),
                                  U8(event_bytes, 3)>>,
                !.use_manual_bookends =
                    self.allow_old_version
                      /\ VersionLess(<<U8(event_bytes, 1), U8(event_bytes, 2),
                                       U8(event_bytes, 3)>>, <<3, 0, 0>>)],
             gamestate, event_bytes)

(***************************************************************************)
(* Console.__pre_frame                                                     *)
(***************************************************************************)
\* np.uint8 + 1.  The sum of a NumPy scalar and a Python int has the width
\* of the scalar under NumPy 2 (255 + 1 wraps to 0) and is widened under
\* NumPy 1 (256): `wraps` tells which NumPy the console runs on.
AddOne(wraps, raw) == IF wraps THEN (raw + 1) % 256 ELSE raw + 1

\* PortOf without the + 1: the port counted from 0.
PortOfRaw(wraps, raw) == raw

PortOf(wraps, raw) == AddOne(wraps, raw)

\* The float32 nearest to the whole number n >= 0 (24 significant bits,
\* ties to even); `ulp` is the spacing tried, from 1.
RECURSIVE RoundF32(_, _)
RoundF32(n, ulp) ==
    IF n \div ulp < 16777216
    THEN (IF 2 * (n % ulp) > ulp \/ (2 * (n % ulp) = ulp /\ (n \div ulp) % 2 = 1)
          THEN (n \div ulp + 1) * ulp ELSE (n \div ulp) * ulp)
    ELSE RoundF32(n, 2 * ulp)

\* (raw / 2) + 0.5, counted in eighths, of a float counted in quarters.  raw
\* is an np.float32: the halving is exact; the sum with the Python float 0.5
\* is a float64 and exact with NumPy 1, a float32 with NumPy 2 (NEP 50).
Normalize(wraps, fix) ==
    IF ~wraps THEN fix + 4
    ELSE IF fix + 4 < 0 THEN 0 - RoundF32(0 - (fix + 4), 1)
    ELSE RoundF32(fix + 4, 1)

\* The bit of each button in the 16-bit mask of the record.
ButtonMask ==
    [BUTTON_A |-> 256, BUTTON_B |-> 512, BUTTON_X |-> 1024, BUTTON_Y |-> 2048,
     BUTTON_START |-> 4096, BUTTON_Z |-> 16, BUTTON_R |-> 32, BUTTON_L |-> 64,
     BUTTON_D_LEFT |-> 1, BUTTON_D_RIGHT |-> 2, BUTTON_D_DOWN |-> 4,
     BUTTON_D_UP |-> 8]

\* bool(int(buttonbits) & mask) for a one-bit mask
BitSet(bits, mask) == (bits \div mask) % 2 = 1

Buttons(buttonbits) ==
    {b \in DOMAIN ButtonMask : BitSet(buttonbits, ButtonMask[b])}

\* The fields of the player that __pre_frame has stored when it returns or
\* is left by a TypeError: costume and CPU level first (401-402), then the
\* main stick when both of its floats are read (404-406), the C stick (408-
\* 410) and the buttons (412-424).
PreFramePlayer(self, playerstate, controller_port, event_bytes) ==
    [playerstate EXCEPT
       !.costume = self.costumes[controller_port - 1],
       !.cpu_level = self.cpu_level[controller_port - 1],
       !.controller_state =
           [@ EXCEPT
              !.main_stick =
                  IF HasBytes(event_bytes, \H1D, 4)
                  THEN <<Normalize(self.uint8_wraps, F32(event_bytes, \H19)),
                         Normalize(self.uint8_wraps, F32(event_bytes, \H1D))>>
                  ELSE @,
              !.c_stick =
                  IF HasBytes(event_bytes, \H25, 4)
                  THEN <<Normalize(self.uint8_wraps, F32(event_bytes, \H21)),
                         Normalize(self.uint8_wraps, F32(event_bytes, \H25))>>
                  ELSE @,
              !.button =
                  IF HasBytes(event_bytes, \H31, 2)
                  THEN Buttons(U16(event_bytes, \H31))
                  ELSE @]]

\* __pre_frame once the port is known and has its player.
PreFrameStore(self, gamestate, controller_port, event_bytes) ==
    IF controller_port - 1 \notin DOMAIN self.costumes
    THEN Result(self, gamestate, "KeyError")
    ELSE IF ~HasBytes(event_bytes, \H31, 2)
    THEN Result(self,
                SetPlayer(gamestate, controller_port,
                          PreFramePlayer(self, gamestate.player[controller_port],
                                         controller_port, event_bytes)),
                "TypeError")
    ELSE Result(IF self.use_manual_bookends
                THEN [self EXCEPT !.frame = gamestate.frame] ELSE self,
                SetPlayer(gamestate, controller_port,
                          PreFramePlayer(self, gamestate.player[controller_port],
                                         controller_port, event_bytes)),
                "")

pre_frame(self, gamestate, event_bytes) ==
    IF ~HasBytes(event_bytes, 5, 1) THEN Result(self, gamestate, "TypeError")
    ELSE PreFrameStore(self,
             EnsurePlayer(self.player_iasa, gamestate, PortOf(self.uint8_wraps, U8(event_bytes, 5))),
             PortOf(self.uint8_wraps, U8(event_bytes, 5)), event_bytes)

(***************************************************************************)
(* Console.__post_frame                                                    *)
(***************************************************************************)
\* The snapshot self._prev_gamestate refers to.  __frame_bookend stores a
\* reference, not a copy: while the snapshot stored there is still the one
\* being built (prev_alias), a read of the previous snapshot reads the
\* snapshot being built.
Prev(self, gamestate) ==
    IF self.prev_alias THEN gamestate ELSE self.prev_gamestate

F32IsNaN(buf, off) == F32Exp(buf, off) = 255 /\ F32Man(buf, off) > 0
F32IsInf(buf, off) == F32Exp(buf, off) = 255 /\ F32Man(buf, off) = 0

\* A coordinate (a position, a cursor) keeps what a float comparison and
\* int() tell apart: the infinities lie behind the finite range, and a NaN,
\* which compares false with everything, has a value of its own.
FixInf == FixHuge + 1
FixNaN == FixHuge + 2

F32Coord(buf, off) ==
    IF F32IsNaN(buf, off) THEN FixNaN
    ELSE IF F32IsInf(buf, off)
    THEN (IF F32Sign(buf, off) = 1 THEN 0 - FixInf ELSE FixInf)
    ELSE F32(buf, off)

Max(a, b) == IF a >= b THEN a ELSE b
Abs(a) == IF a < 0 THEN 0 - a ELSE a

\* try: np.ndarray(.., ">f", event_bytes, off)[0] except TypeError: 0
OptF32(event_bytes, off) ==
    IF HasBytes(event_bytes, off, 4) THEN F32(event_bytes, off) ELSE 0

\* try: np.ndarray(.., ">B", event_bytes, off)[0] except TypeError: default
OptU8(event_bytes, off, default) ==
    IF HasBytes(event_bytes, off, 1) THEN U8(event_bytes, off) ELSE default

\* enums.Action(v), UNKNOWN_ANIMATION on ValueError
ActionOf(v) == IF IsAction(v) THEN v ELSE UNKNOWN_ANIMATION

\* The fields of the record that every protocol revision carries.
PostFrameBase(playerstate, event_bytes) ==
    [playerstate EXCEPT
       !.x = F32Coord(event_bytes, \HA),
       !.y = F32Coord(event_bytes, \HE),
       !.character = U8(event_bytes, \H7),
       !.action = ActionOf(U16(event_bytes, \H8)),
       !.facing = F32Positive(event_bytes, \H12),
       !.percent = IntOf(F32(event_bytes, \H16)),
       !.shield_strength = F32(event_bytes, \H1A),
       !.stock = U8(event_bytes, \H21),
       !.action_frame = IntOf(F32(event_bytes, \H22))]

\* The fields of later revisions, each read from the buffer the decoder was
\* handed, with its default when the buffer ends before it.
PostFrameTail(playerstate, event_bytes) ==
    [playerstate EXCEPT
       !.hitlag = BitSet(OptU8(event_bytes, \H27, 0), \H20),
       !.hitstun_frames_left =
           IF HasBytes(event_bytes, \H2B, 4) /\ ~F32IsNaN(event_bytes, \H2B)
           THEN IntOf(F32(event_bytes, \H2B)) ELSE 0,
       !.on_ground = OptU8(event_bytes, \H2F, 0) = 0,
       !.jumps_left = OptU8(event_bytes, \H32, 1),
       !.invulnerable = OptU8(event_bytes, \H34, 0) # 0,
       !.speed_air_x_self = OptF32(event_bytes, \H35),
       !.speed_y_self = OptF32(event_bytes, \H39),
       !.speed_x_attack = OptF32(event_bytes, \H3D),
       !.speed_y_attack = OptF32(event_bytes, \H41),
       !.speed_ground_x_self = OptF32(event_bytes, \H45)]

\* The invulnerability countdown (respawn and ledge grab).
Invulnerability(playerstate, prev, controller_port, frame) ==
    LET carried == IF HasPlayer(prev, controller_port)
                   THEN Max(0, prev.player[controller_port].invulnerability_left - 1)
                   ELSE playerstate.invulnerability_left
        halo == IF playerstate.action = ON_HALO_WAIT THEN 120 ELSE carried
        descent == IF playerstate.action = ON_HALO_DESCENT /\ frame > 150
                   THEN 120 ELSE halo
    IN  IF playerstate.action = EDGE_CATCHING /\ playerstate.action_frame = 1
        THEN 36 ELSE descent

\* The dash-dance pre-warning.
MoonwalkWarning(playerstate, prev, controller_port) ==
    LET warned ==
          IF /\ HasPlayer(prev, controller_port)
             /\ playerstate.action = DASHING
             /\ prev.player[controller_port].action \notin {DASHING, TURNING}
          THEN TRUE ELSE playerstate.moonwalkwarning
    IN  IF playerstate.action # DASHING THEN FALSE ELSE warned

\* OffStage with "and" for the "or" of line 529.
OffStageBoth(playerstate, stage) ==
    IF EDGE_GROUND_POSITION(stage) = -1 THEN FALSE
    ELSE /\ playerstate.x # FixNaN
         /\ Abs(playerstate.x) > EDGE_GROUND_POSITION(stage)
         /\ playerstate.y # FixNaN
         /\ playerstate.y < -24
         /\ ~playerstate.on_ground

\* The "off_stage" helper; EDGE_GROUND_POSITION raises KeyError for a stage
\* it does not list.  abs(x) > edge and y < -6 are float comparisons: both
\* are False for a NaN.
OffStage(playerstate, stage) ==
    IF EDGE_GROUND_POSITION(stage) = -1 THEN FALSE
    ELSE /\ \/ /\ playerstate.x # FixNaN
               /\ Abs(playerstate.x) > EDGE_GROUND_POSITION(stage)
            \/ /\ playerstate.y # FixNaN
               /\ playerstate.y < -24
         /\ ~playerstate.on_ground

\* The four corners of the environmental collision box.
PostFrameEcb(playerstate, event_bytes) ==
    [playerstate EXCEPT
       !.ecb_top = <<OptF32(event_bytes, \H49), OptF32(event_bytes, \H4D)>>,
       !.ecb_bottom = <<OptF32(event_bytes, \H51), OptF32(event_bytes, \H55)>>,
       !.ecb_left = <<OptF32(event_bytes, \H59), OptF32(event_bytes, \H5D)>>,
       !.ecb_right = <<OptF32(event_bytes, \H61), OptF32(event_bytes, \H65)>>]

\* The first read of the decoder that raises, in the order of the source:
\* <<step, exception>> with step 1 the frame index (430), 2 the port (431),
\* 3 x (437), 4 y (438), 5 the character (440), 6 facing (447), 7 the
\* percent (449), 8 the shield (450), 9 the stock (451), 10 the action-frame
\* counter (452) and 11 the hitstun (460); <<0, "">> when none raises.  A read
\* past the end of the buffer raises TypeError, a character id that is no
\* member of enums.Character ValueError, int() of a NaN ValueError and of an
\* infinity OverflowError; for the hitstun only the OverflowError is not
\* caught.
PostFrameStop(event_bytes) ==
    IF ~HasBytes(event_bytes, \H1, 4) THEN <<1, "TypeError">>
    ELSE IF ~HasBytes(event_bytes, \H5, 1) THEN <<2, "TypeError">>
    ELSE IF ~HasBytes(event_bytes, \HA, 4) THEN <<3, "TypeError">>
    ELSE IF ~HasBytes(event_bytes, \HE, 4) THEN <<4, "TypeError">>
    ELSE IF ~IsCharacter(U8(event_bytes, \H7)) THEN <<5, "ValueError">>
    ELSE IF ~HasBytes(event_bytes, \H12, 4) THEN <<6, "TypeError">>
    ELSE IF ~HasBytes(event_bytes, \H16, 4) THEN <<7, "TypeError">>
    ELSE IF F32IsNaN(event_bytes, \H16) THEN <<7, "ValueError">>
    ELSE IF F32IsInf(event_bytes, \H16) THEN <<7, "OverflowError">>
    ELSE IF ~HasBytes(event_bytes, \H1A, 4) THEN <<8, "TypeError">>
    ELSE IF ~HasBytes(event_bytes, \H21, 1) THEN <<9, "TypeError">>
    ELSE IF ~HasBytes(event_bytes, \H22, 4) THEN <<10, "TypeError">>
    ELSE IF F32IsNaN(event_bytes, \H22) THEN <<10, "ValueError">>
    ELSE IF F32IsInf(event_bytes, \H22) THEN <<10, "OverflowError">>
    ELSE IF HasBytes(event_bytes, \H2B, 4) /\ F32IsInf(event_bytes, \H2B)
         THEN <<11, "OverflowError">>
    ELSE <<0, "">>

\* The exception that leaves the decoder, "" for none.
PostFrameExc(event_bytes) == PostFrameStop(event_bytes)[2]

\* The player when the read of step `step` (3 or later) has raised: the
\* fields of the reads before it are stored.
PostFramePartial(playerstate, event_bytes, step) ==
    [playerstate EXCEPT
       !.x = IF step > 3 THEN F32Coord(event_bytes, \HA) ELSE @,
       !.y = IF step > 4 THEN F32Coord(event_bytes, \HE) ELSE @,
       !.character = IF step > 5 THEN U8(event_bytes, \H7) ELSE @,
       !.action = IF step > 5 THEN ActionOf(U16(event_bytes, \H8)) ELSE @,
       !.facing = IF step > 6 THEN F32Positive(event_bytes, \H12) ELSE @,
       !.percent = IF step > 7 THEN IntOf(F32(event_bytes, \H16)) ELSE @,
       !.shield_strength = IF step > 8 THEN F32(event_bytes, \H1A) ELSE @,
       !.stock = IF step > 9 THEN U8(event_bytes, \H21) ELSE @,
       !.action_frame = IF step > 10 THEN IntOf(F32(event_bytes, \H22)) ELSE @,
       !.hitlag = IF step > 10 THEN BitSet(OptU8(event_bytes, \H27, 0), \H20)
                  ELSE @]

\* The decoder left by the exception of step `step`: the stage is stored
\* (429), the frame index after step 1, the player of the port after step 2.
PostFrameRaised(self, gamestate, event_bytes, step) ==
    IF step = 1
    THEN Result(self, [gamestate EXCEPT !.stage = self.current_stage],
                PostFrameExc(event_bytes))
    ELSE IF step = 2
    THEN Result(self,
                [gamestate EXCEPT !.stage = self.current_stage,
                                  !.frame = I32(event_bytes, \H1)],
                PostFrameExc(event_bytes))
    ELSE Result(self,
                SetPlayer([gamestate EXCEPT !.stage = self.current_stage,
                                            !.frame = I32(event_bytes, \H1)],
                          PortOf(self.uint8_wraps, U8(event_bytes, \H5)),
                          PostFramePartial(
                              EnsurePlayer(self.player_iasa, gamestate,
                                  PortOf(self.uint8_wraps, U8(event_bytes, \H5))
                                ).player[PortOf(self.uint8_wraps,
                                                U8(event_bytes, \H5))],
                              event_bytes, step)),
                PostFrameExc(event_bytes))

\* The steps of the decoder after the reads, each on the player state the
\* step before it left: the countdown, the warning, the off-stage helper and
\* the collision box, and the frame index kept for the manual bookends.
PostFrameStore(self, gamestate, controller_port, playerstate) ==
    Result(IF self.use_manual_bookends
           THEN [self EXCEPT !.frame = gamestate.frame] ELSE self,
           SetPlayer(gamestate, controller_port, playerstate), "")

PostFrameWarn(self, gamestate, controller_port, playerstate, event_bytes) ==
    PostFrameStore(self, gamestate, controller_port,
        PostFrameEcb(
            [playerstate EXCEPT
               !.moonwalkwarning =
                   MoonwalkWarning(playerstate,
                       Prev(self, SetPlayer(gamestate, controller_port, playerstate)),
                       controller_port),
               !.off_stage =
                   OffStage(playerstate, gamestate.stage)],
            event_bytes))

PostFrameCountdown(self, gamestate, controller_port, playerstate, event_bytes) ==
    PostFrameWarn(self, gamestate, controller_port,
        [playerstate EXCEPT
           !.invulnerability_left =
               Invulnerability(playerstate,
                   Prev(self, SetPlayer(gamestate, controller_port, playerstate)),
                   controller_port, gamestate.frame)],
        event_bytes)

PostFrameRead(self, gamestate, controller_port, event_bytes) ==
    PostFrameCountdown(self, gamestate, controller_port,
        PostFrameTail(PostFrameBase(gamestate.player[controller_port], event_bytes),
                      event_bytes),
        event_bytes)

post_frame(self, gamestate, event_bytes) ==
    IF PostFrameExc(event_bytes) # ""
    THEN PostFrameRaised(self, gamestate, event_bytes,
                         PostFrameStop(event_bytes)[1])
    ELSE PostFrameRead(self,
             [EnsurePlayer(self.player_iasa, gamestate, PortOf(self.uint8_wraps, U8(event_bytes, \H5))) EXCEPT
                !.stage = self.current_stage,
                !.frame = I32(event_bytes, \H1)],
             PortOf(self.uint8_wraps, U8(event_bytes, \H5)), event_bytes)

(***************************************************************************)
(* Console.__frame_bookend                                                 *)
(***************************************************************************)
\* The integer square root, by bisection on lo <= r < hi.
RECURSIVE SqrtBetween(_, _, _)
SqrtBetween(n, lo, hi) ==
    IF hi - lo <= 1 THEN lo
    ELSE LET mid == (lo + hi) \div 2
         IN  IF mid * mid <= n THEN SqrtBetween(n, mid, hi)
             ELSE SqrtBetween(n, lo, mid)

\* Coordinates are cut to +-SqrtRange quarters before they are squared.
SqrtRange == 16384

Clip(v) == IF v > SqrtRange THEN SqrtRange
           ELSE IF v < 0 - SqrtRange THEN 0 - SqrtRange ELSE v

\* xdist**2 + ydist**2, in sixteenths.  The coordinates are np.float32; with
\* NumPy 1 the power by the Python int 2 is a float64 and exact, with NumPy 2
\* (NEP 50) the squares and their sum are float32.
SumOfSquares(wraps, xdist, ydist) ==
    IF wraps
    THEN RoundF32(RoundF32(xdist * xdist, 1) + RoundF32(ydist * ydist, 1), 1)
    ELSE xdist * xdist + ydist * ydist

\* math.sqrt(xdist**2 + ydist**2), in quarters, rounded down
Distance(wraps, xdist, ydist) ==
    SqrtBetween(SumOfSquares(wraps, Clip(xdist), Clip(ydist)),
                0, 2 * SqrtRange)

\* The ports of a snapshot below `port`.
PortsBelow(gamestate, port) == {q \in DOMAIN gamestate.player : q < port}

\* PlayerXY by port number: the position of the player with the i-th lowest
\* port.
PlayerXYLowest(gamestate, i) ==
    IF Cardinality(DOMAIN gamestate.player) >= i
    THEN LET port == CHOOSE q \in DOMAIN gamestate.player :
                        Cardinality(PortsBelow(gamestate, q)) = i - 1
         IN  <<gamestate.player[port].x, gamestate.player[port].y>>
    ELSE <<0, 0>>

\* The position of the i-th player of the dict's iteration order, (0, 0)
\* when the dict has fewer players.
PlayerXY(gamestate, i) ==
    IF Len(gamestate.ports) >= i
    THEN <<gamestate.player[gamestate.ports[i]].x,
           gamestate.player[gamestate.ports[i]].y>>
    ELSE <<0, 0>>

\* The difference of two infinities of one sign is a NaN, and so is the
\* distance of a NaN; the distance of an infinite difference is infinite.
frame_bookend(self, gamestate, event_bytes) ==
    LET one == PlayerXY(gamestate, 1)
        two == PlayerXY(gamestate, 2)
        Infinite(a, b) == Abs(a) = FixInf \/ Abs(b) = FixInf
        Undefined(a, b) ==
            a = FixNaN \/ b = FixNaN \/ (Abs(a) = FixInf /\ a = b)
    IN  Result([self EXCEPT !.prev_alias = TRUE],
               [gamestate EXCEPT
                  !.distance =
                      IF Undefined(one[1], two[1]) \/ Undefined(one[2], two[2])
                      THEN FixNaN
                      ELSE IF Infinite(one[1], two[1]) \/ Infinite(one[2], two[2])
                      THEN FixInf
                      ELSE Distance(self.uint8_wraps,
                                    one[1] - two[1], one[2] - two[2])],
               "")

(***************************************************************************)
(* Console.__item_update                                                   *)
(***************************************************************************)
\* owner byte + 1, -1 ("no owner") above port 4 or when the byte is missing
Owner(wraps, event_bytes) ==
    IF ~HasBytes(event_bytes, \H2A, 1) THEN -1
    ELSE IF AddOne(wraps, U8(event_bytes, \H2A)) > 4 THEN -1
    ELSE AddOne(wraps, U8(event_bytes, \H2A))

\* enums.ProjectileSubtype(v), UNKNOWN_PROJECTILE on ValueError
SubtypeOf(v) == IF IsProjectileSubtype(v) THEN v ELSE UNKNOWN_PROJECTILE

item_update(self, gamestate, event_bytes) ==
    IF ~HasBytes(event_bytes, \H18, 4) THEN Result(self, gamestate, "TypeError")
    ELSE
    LET projectile ==
          [x |-> F32(event_bytes, \H14), y |-> F32(event_bytes, \H18),
           x_speed |-> F32(event_bytes, \HC), y_speed |-> F32(event_bytes, \H10),
           owner |-> Owner(self.uint8_wraps, event_bytes),
           subtype |-> SubtypeOf(U16(event_bytes, \H5))]
    IN  Result(self,
               [gamestate EXCEPT !.projectiles = Append(@, projectile)], "")

(***************************************************************************)
(* Console.__handle_slippstream_menu_event                                 *)
(***************************************************************************)
\* The scene id of the event.
MenuOf(scene) ==
    CASE scene = \H2 -> "CHARACTER_SELECT"
      [] scene \in {\H102, \H108} -> "STAGE_SELECT"
      [] scene = \H202 -> "IN_GAME"
      [] scene = \H1 -> "MAIN_MENU"
      [] scene = \H8 -> "SLIPPI_ONLINE_CSS"
      [] scene = \H0 -> "PRESS_START"
      [] OTHER -> "UNKNOWN_MENU"

CssMenus == {"CHARACTER_SELECT", "SLIPPI_ONLINE_CSS"}

\* enums.to_internal: the character of a select-screen id
CssCharacters ==
    <<21, 0, 17, 5, 9, 14, 3, 2, 25, 22, 1, 8, 10, 4, 13, 19, 6, 20, 23, 12,
      15, 16, 24, 18, 26>>

CharacterSelected(v) ==
    IF v < Len(CssCharacters) THEN CssCharacters[v + 1] ELSE UNKNOWN_CHARACTER

\* All four ports get a fresh PlayerState on the select screens.
RECURSIVE ResetPlayers(_, _, _)
ResetPlayers(iasa, gamestate, n) ==
    IF n = 0 THEN gamestate
    ELSE SetPlayer(ResetPlayers(iasa, gamestate, n - 1), n, NewPlayerState(iasa))

\* The select-screen fields of one port.
CssPlayer(playerstate, event_bytes, port) ==
    [playerstate EXCEPT
       !.controller_status = ControllerStatusOf(U8(event_bytes, \H25 + (port - 1))),
       !.cursor_x = F32Coord(event_bytes, \H3 + 8 * (port - 1)),
       !.cursor_y = F32Coord(event_bytes, \H7 + 8 * (port - 1)),
       !.character_selected =
           IF HasBytes(event_bytes, \H29 + (port - 1), 1)
           THEN CharacterSelected(U8(event_bytes, \H29 + (port - 1)))
           ELSE UNKNOWN_CHARACTER,
       !.coin_down = OptU8(event_bytes, \H2D + (port - 1), 0) = 2]

MenuCss(gamestate, event_bytes) ==
    [gamestate EXCEPT
       !.player = [q \in DOMAIN @ |->
                     IF q \in Ports THEN CssPlayer(@[q], event_bytes, q) ELSE @[q]],
       !.ready_to_start = U8(event_bytes, \H23)]

MenuStage(gamestate, event_bytes) ==
    [gamestate EXCEPT
       !.stage = IF StageOf(U8(event_bytes, \H24)) = "ValueError"
                 THEN "NO_STAGE" ELSE StageOf(U8(event_bytes, \H24)),
       !.stage_select_cursor_x = F32(event_bytes, \H31),
       !.stage_select_cursor_y = F32(event_bytes, \H35)]

\* The sub-menu, with the name-entry refinement of the online select screen.
MenuSubmenu(gamestate, event_bytes) ==
    LET plain == IF ~HasBytes(event_bytes, \H3D, 1) THEN "UNKNOWN_SUBMENU"
                 ELSE IF SubMenuOf(U8(event_bytes, \H3D)) = "ValueError"
                      THEN "UNKNOWN_SUBMENU"
                 ELSE SubMenuOf(U8(event_bytes, \H3D))
    IN  IF gamestate.menu_state = "SLIPPI_ONLINE_CSS" /\ HasBytes(event_bytes, \H40, 1)
        THEN (IF U8(event_bytes, \H40) = \H5 THEN "NAME_ENTRY_SUBMENU"
              ELSE IF U8(event_bytes, \H40) = \H0 THEN "ONLINE_CSS"
              ELSE plain)
        ELSE plain

\* The number of ports 1..n the slider loop handles before it is left by a
\* KeyError (the port has no player) or a TypeError (the flag byte is missing).
RECURSIVE SliderReach(_, _, _)
SliderReach(gamestate, event_bytes, i) ==
    IF i = 4 THEN 4
    ELSE IF ~HasPlayer(gamestate, i + 1) THEN i
    ELSE IF gamestate.player[i + 1].cursor_y < 0 /\ ~HasBytes(event_bytes, 45 + i, 1)
         THEN i
    ELSE SliderReach(gamestate, event_bytes, i + 1)

MenuSlider(gamestate, event_bytes) ==
    LET reach == SliderReach(gamestate, event_bytes, 0)
    IN  [gamestate EXCEPT
           !.player = [q \in DOMAIN @ |->
               IF q \in 1..reach
               THEN [@[q] EXCEPT !.is_holding_cpu_slider =
                       /\ gamestate.player[q].cursor_y < 0
                       /\ U8(event_bytes, 45 + (q - 1)) # 0]
               ELSE @[q]]]

\* int(a / b) for b > 0: the quotient truncated toward zero
TruncDiv(a, b) == IF a < 0 THEN 0 - ((0 - a) \div b) ELSE a \div b

\* The slider positions (in quarters) of port i + 1 where the float64
\* quotient (cursor_x - start_x) / 1.2 of NumPy 1 falls short of a whole
\* number, the only places where it leaves the exact arithmetic for a
\* cursor_x within +-SqrtRange quarters.
SliderShort64(i) ==
    CASE i = 0 -> {-114, -90}
      [] i = 1 -> {-38, -14}
      [] i = 2 -> {14, 38, 62, 134}
      [] i = 3 -> {66, 90, 114, 138, 162, 186, 210, 330, 354}
      [] OTHER -> {}

\* int(quotient) when the quotient falls short of the whole number n.
ShortOf(n) == IF n > 0 THEN n - 1 ELSE IF n < 0 THEN n + 1 ELSE 0

\* With NumPy 2 the three operations of line 777 are float32.  A float32 is
\* a whole mantissa below 2^24 times a power of two, and the operations are
\* done on the mantissas.
\* -start_x as a float32: <<mantissa, e>> for mantissa / 2^e, of the float64
\* values 30.9, 15.499999999999998, 0.09999999999999787, -15.300000000000004
NegStart32(i) ==
    CASE i = 0 -> <<16200499, 19>>
      [] i = 1 -> <<16252928, 20>>
      [] i = 2 -> <<13421773, 27>>
      [] OTHER -> <<-16043213, 20>>

\* 1.2 as a float32: 10066330 / 2^23
Divisor32 == 10066330

\* The number of bits of n >= 0.
RECURSIVE Bits(_)
Bits(n) == IF n = 0 THEN 0 ELSE 1 + Bits(n \div 2)

\* The number of doublings that bring the mantissa m > 0 to Divisor32 or
\* above.
RECURSIVE Shift32(_)
Shift32(m) == IF m >= Divisor32 THEN 0 ELSE 1 + Shift32(2 * m)

\* Long division by Divisor32: n more bits of the quotient `quo`, with the
\* remainder `rem` below the divisor; the result is rounded to nearest, ties
\* to even.
RECURSIVE Divide32(_, _, _)
Divide32(rem, quo, n) ==
    IF n = 0
    THEN (IF 2 * rem > Divisor32 \/ (2 * rem = Divisor32 /\ quo % 2 = 1)
          THEN quo + 1 ELSE quo)
    ELSE IF 2 * rem >= Divisor32
    THEN Divide32(2 * rem - Divisor32, 2 * quo + 1, n - 1)
    ELSE Divide32(2 * rem, 2 * quo, n - 1)

\* int((cursor_x - start_x) / 1.2) in float32 for the difference
\* (whole * 2^k + low) / 2^(k + 2) >= 0, with 0 <= low < 2^k.
\* Dropped(bits): the bits the difference has beyond 24.
\* Kept(t): the difference rounded to 24 bits after t bits are dropped.
\* Quotient(m, x, s): int() of the quotient of the mantissa m > 0 with 2^x in
\* its denominator by 1.2, s the doublings of m; the 24-bit quotient of the
\* mantissas is cut by the exponent left.
Trunc32(whole, low, k) ==
    LET Dropped(bits) == Max(bits - 24, 0)
        Kept(t) ==
            IF \/ 2 * (low % Pow2(t)) > Pow2(t)
               \/ /\ 2 * (low % Pow2(t)) = Pow2(t)
                  /\ (whole * Pow2(k - t) + low \div Pow2(t)) % 2 = 1
            THEN whole * Pow2(k - t) + low \div Pow2(t) + 1
            ELSE whole * Pow2(k - t) + low \div Pow2(t)
        Quotient(m, x, s) ==
            IF x + s >= 31 THEN 0
            ELSE IF x + s >= 0
            THEN Divide32(m * Pow2(s) - Divisor32, 1, 23) \div Pow2(x + s)
            ELSE Divide32(m * Pow2(s) - Divisor32, 1, 23) * Pow2(0 - (x + s))
        Cut(t) == Quotient(Kept(t), k + 2 - t, Shift32(Kept(t)))
    IN  IF whole = 0 /\ low = 0 THEN 0
        ELSE IF whole = 0 THEN Cut(Dropped(Bits(low)))
        ELSE Cut(Dropped(Bits(whole) + k))

\* gamestate.player[i + 1].cpu_level of a port that holds the slider:
\* 1 + int((cursor_x - start_x) / 1.2) with start_x = -30.9 + 15.4 * i and
\* cursor_x counted in quarters.  In float64 (NumPy 1)
\* (cursor_x/4 + 30.9 - 15.4 i) / 1.2 = (5 cursor_x + 618 - 308 i) / 24, short
\* of the whole number at the points of SliderShort64.  In float32 (NumPy 2)
\* the whole part of -start_x is counted in quarters and the rest in 2^-e;
\* int() cuts towards 0, so a difference below 0 is cut by its magnitude.
SliderLevel(wraps, cursor_x, i) ==
    LET Level32(whole, low, k) ==
            IF whole >= 0 THEN 1 + Trunc32(whole, low, k)
            ELSE IF low = 0 THEN 1 - Trunc32(0 - whole, 0, k)
            ELSE 1 - Trunc32((0 - whole) - 1, Pow2(k) - low, k)
        Start32(mantissa, e) ==
            Level32(cursor_x + mantissa \div Pow2(e - 2),
                    mantissa % Pow2(e - 2), e - 2)
    IN  IF wraps THEN Start32(NegStart32(i)[1], NegStart32(i)[2])
        ELSE IF cursor_x \in SliderShort64(i)
        THEN 1 + ShortOf(TruncDiv(5 * cursor_x + 618 - 308 * i, 24))
        ELSE 1 + TruncDiv(5 * cursor_x + 618 - 308 * i, 24)

\* Where the CPU-level loop (772-783) ends, from port i + 1 on: <<n, exc>>
\* with n the number of ports it has set the level of and exc the exception
\* that leaves it uncaught, "" when the loop ends or is left by a KeyError.
\* int() of the quotient raises ValueError for a cursor x that is a NaN and
\* OverflowError for an infinite one, when the port holds the slider.
RECURSIVE LevelStop(_, _)
LevelStop(gamestate, i) ==
    IF i = 4 THEN <<4, "">>
    ELSE IF ~HasPlayer(gamestate, i + 1) THEN <<i, "">>
    ELSE IF /\ gamestate.player[i + 1].is_holding_cpu_slider
            /\ gamestate.player[i + 1].cursor_x = FixNaN
         THEN <<i, "ValueError">>
    ELSE IF /\ gamestate.player[i + 1].is_holding_cpu_slider
            /\ gamestate.player[i + 1].cursor_x \in {FixInf, 0 - FixInf}
         THEN <<i, "OverflowError">>
    ELSE LevelStop(gamestate, i + 1)

\* MenuCpuLevel with the loop of lines 773-779 run on the online
\* character-select screen only.
MenuCpuLevelOnline(wraps, gamestate) ==
    LET stop == IF gamestate.menu_state = "SLIPPI_ONLINE_CSS"
                THEN LevelStop(gamestate, 0) ELSE <<0, "">>
    IN  [gamestate EXCEPT
           !.player = [q \in DOMAIN @ |->
               LET playerstate == gamestate.player[q]
                   level == IF q \in 1..stop[1]
                            THEN (IF playerstate.is_holding_cpu_slider
                                  THEN SliderLevel(wraps, Clip(playerstate.cursor_x),
                                              q - 1)
                                  ELSE 1)
                            ELSE playerstate.cpu_level
               IN  [playerstate EXCEPT !.cpu_level =
                      IF /\ stop[2] = ""
                         /\ playerstate.controller_status # "CONTROLLER_CPU"
                      THEN 0
                      ELSE level]]]

\* The CPU levels (772-788): the ports the loop reaches have their level;
\* when the loop is not left by an exception, the level of the players that
\* are no CPU is set to 0 after it.
MenuCpuLevel(wraps, gamestate) ==
    LET stop == LevelStop(gamestate, 0)
    IN  [gamestate EXCEPT
           !.player = [q \in DOMAIN @ |->
               LET playerstate == gamestate.player[q]
                   level == IF q \in 1..stop[1]
                            THEN (IF playerstate.is_holding_cpu_slider
                                  THEN SliderLevel(wraps, Clip(playerstate.cursor_x),
                                              q - 1)
                                  ELSE 1)
                            ELSE playerstate.cpu_level
               IN  [playerstate EXCEPT !.cpu_level =
                      IF /\ stop[2] = ""
                         /\ playerstate.controller_status # "CONTROLLER_CPU"
                      THEN 0
                      ELSE level]]]

\* The online costume: one byte for all four ports.
MenuCostume(gamestate, event_bytes) ==
    IF gamestate.menu_state = "SLIPPI_ONLINE_CSS" /\ HasBytes(event_bytes, \H3F, 1)
    THEN [gamestate EXCEPT
            !.player = [q \in DOMAIN @ |->
                          IF q \in Ports
                          THEN [@[q] EXCEPT !.costume = U8(event_bytes, \H3F)]
                          ELSE @[q]]]
    ELSE gamestate

\* The first read of the handler that raises, in the order of the source:
\* <<step, exception>> with step 1 the scene (635), 2..5 the controller
\* status of port 1..4 on a character-select screen (662-665: TypeError when
\* the byte is missing, ValueError when it is no enums.ControllerStatus),
\* 6 the stage byte of the stage-select screen (719: only ValueError is
\* caught), 7 and 8 its cursor (724-725) and 9 the frame count (728);
\* <<0, "">> when none raises.  The cursors and the ready banner of the
\* character-select screens lie below the status bytes and cannot raise.
RECURSIVE StatusStop(_, _)
StatusStop(event_bytes, i) ==
    IF i = 4 THEN <<0, "">>
    ELSE IF ~HasBytes(event_bytes, \H25 + i, 1) THEN <<2 + i, "TypeError">>
    ELSE IF ControllerStatusOf(U8(event_bytes, \H25 + i)) = "ValueError"
         THEN <<2 + i, "ValueError">>
    ELSE StatusStop(event_bytes, i + 1)

MenuReadStop(event_bytes) ==
    IF ~HasBytes(event_bytes, \H1, 2) THEN <<1, "TypeError">>
    ELSE IF /\ MenuOf(U16(event_bytes, \H1)) \in CssMenus
            /\ StatusStop(event_bytes, 0)[1] # 0
         THEN StatusStop(event_bytes, 0)
    ELSE IF /\ MenuOf(U16(event_bytes, \H1)) = "STAGE_SELECT"
            /\ ~HasBytes(event_bytes, \H24, 1)
         THEN <<6, "TypeError">>
    ELSE IF /\ MenuOf(U16(event_bytes, \H1)) = "STAGE_SELECT"
            /\ ~HasBytes(event_bytes, \H31, 4)
         THEN <<7, "TypeError">>
    ELSE IF /\ MenuOf(U16(event_bytes, \H1)) = "STAGE_SELECT"
            /\ ~HasBytes(event_bytes, \H35, 4)
         THEN <<8, "TypeError">>
    ELSE IF ~HasBytes(event_bytes, \H39, 4) THEN <<9, "TypeError">>
    ELSE <<0, "">>


\* The snapshot after the scene is stored (635-659).
MenuScene(iasa, gamestate, event_bytes) ==
    IF MenuOf(U16(event_bytes, \H1)) \in CssMenus
    THEN ResetPlayers(iasa, [gamestate EXCEPT
                         !.menu_state = MenuOf(U16(event_bytes, \H1))], 4)
    ELSE [gamestate EXCEPT !.menu_state = MenuOf(U16(event_bytes, \H1))]

\* The snapshot after the screen's own fields are stored (661-725).
MenuScreen(iasa, gamestate, event_bytes) ==
    IF MenuOf(U16(event_bytes, \H1)) \in CssMenus
    THEN MenuCss(MenuScene(iasa, gamestate, event_bytes), event_bytes)
    ELSE IF MenuOf(U16(event_bytes, \H1)) = "STAGE_SELECT"
    THEN MenuStage(MenuScene(iasa, gamestate, event_bytes), event_bytes)
    ELSE MenuScene(iasa, gamestate, event_bytes)

\* The snapshot when the read of step `step` (2 or later) has raised: what
\* the reads before it stored stays.
MenuRaised(iasa, gamestate, event_bytes, step) ==
    IF step \in 2..5
    THEN [MenuScene(iasa, gamestate, event_bytes) EXCEPT
            !.player = [q \in DOMAIN @ |->
               IF q \in 1..(step - 2)
               THEN [@[q] EXCEPT !.controller_status =
                       ControllerStatusOf(U8(event_bytes, \H25 + (q - 1)))]
               ELSE @[q]]]
    ELSE IF step = 6 THEN MenuScene(iasa, gamestate, event_bytes)
    ELSE IF step \in 7..8
    THEN [MenuScene(iasa, gamestate, event_bytes) EXCEPT
            !.stage = IF StageOf(U8(event_bytes, \H24)) = "ValueError"
                      THEN "NO_STAGE" ELSE StageOf(U8(event_bytes, \H24)),
            !.stage_select_cursor_x =
                IF step = 8 THEN F32(event_bytes, \H31) ELSE @]
    ELSE MenuScreen(iasa, gamestate, event_bytes)

\* The frame count and the fields after it up to the slider flags (728-770),
\* on the snapshot g2 the screen's own fields left.
MenuFlags(g2, event_bytes) ==
    MenuSlider(
        MenuCostume([g2 EXCEPT
                       !.frame = I32(event_bytes, \H39),
                       !.submenu = MenuSubmenu(g2, event_bytes),
                       !.menu_selection = OptU8(event_bytes, \H3E, 0)],
                    event_bytes),
        event_bytes)

\* The CPU levels on the snapshot the reads have left (772-788), with the
\* exception of line 777 that leaves the handler.  On the character-select
\* screens, the only ones that store cursors, the four players are created
\* anew.
MenuLevels(self, gamestate) ==
    Result(self, MenuCpuLevel(self.uint8_wraps, gamestate),
           LevelStop(gamestate, 0)[2])

handle_slippstream_menu_event(self, gamestate, event_bytes) ==
    IF MenuReadStop(event_bytes)[1] = 1
    THEN Result(self, gamestate, "TypeError")
    ELSE IF MenuReadStop(event_bytes)[1] # 0
    THEN Result(self,
                MenuRaised(self.player_iasa, gamestate, event_bytes, MenuReadStop(event_bytes)[1]),
                MenuReadStop(event_bytes)[2])
    ELSE MenuLevels(self, MenuFlags(MenuScreen(self.player_iasa, gamestate, event_bytes),
                                    event_bytes))

(***************************************************************************)
(* Console.__handle_slippstream_events                                     *)
(***************************************************************************)
\* event_bytes[n:]
Drop(event_bytes, n) ==
    IF n >= Len(event_bytes) THEN <<>>
    ELSE SubSeq(event_bytes, n + 1, Len(event_bytes))

\* self.eventsize is the list [0] * 0x100.  The model holds the entries that
\* were stored, by command; every other entry is 0.
SizeOf(eventsize, command) ==
    IF command \in DOMAIN eventsize THEN eventsize[command] ELSE 0

\* self.eventsize[command] = size
SetSize(eventsize, command, size) ==
    IF size = 0
    THEN [c \in (DOMAIN eventsize) \ {command} |-> eventsize[c]]
    ELSE [c \in (DOMAIN eventsize) \cup {command} |->
            IF c = command THEN size ELSE eventsize[c]]

\* The payload descriptor: entry i (from 0) of its (command, length) list
\* lies at cursor 2 + 3 i.  The loop stops at the first entry the buffer does
\* not hold (TypeError), keeping the entries stored before it.
\* command_len is an np.uint16: with NumPy 2 (NEP 50) command_len + 1 stays
\* 16 bits wide and wraps to 0 at 0xFFFF, with NumPy 1 the sum is widened.
RECURSIVE StorePayloads(_, _, _, _, _)
StorePayloads(wraps, eventsize, event_bytes, i, num_commands) ==
    IF i >= num_commands THEN [eventsize |-> eventsize, exc |-> ""]
    ELSE IF ~HasBytes(event_bytes, \H2 + 3 * i + 1, 2)
    THEN [eventsize |-> eventsize, exc |-> "TypeError"]
    ELSE LET command == U8(event_bytes, \H2 + 3 * i)
             command_len == U16(event_bytes, \H2 + 3 * i + \H1)
         IN  StorePayloads(wraps,
                           SetSize(eventsize, command,
                                   IF wraps THEN (command_len + 1) % 65536
                                   ELSE command_len + 1),
                           event_bytes, i + 1, num_commands)

\* (payload_size - 1) // 3: Python's floor division
NumCommands(payload_size) == IF payload_size = 0 THEN -1 ELSE (payload_size - 1) \div 3

\* What one call of the dispatcher leaves behind: the console fields, the
\* snapshot, the value returned (frame_ended), the exception that left it,
\* whether it never returns, and for the record: the bytes of event_bytes
\* not consumed when it returned (rest), the branch that returned (why) and
\* the records handed to a branch, each with its length in the size table
\* (trace).
Outcome(self, gamestate, ret, exc, hang, rest, why, trace) ==
    [self |-> self, gamestate |-> gamestate, ret |-> ret, exc |-> exc,
     hang |-> hang, rest |-> rest, why |-> why, trace |-> trace]

\* The decoder of a record kind that the loop continues after.
Decode(command, self, gamestate, event_bytes) ==
    CASE command = GAME_START -> game_start(self, gamestate, event_bytes)
      [] command = PRE_FRAME -> pre_frame(self, gamestate, event_bytes)
      [] command = POST_FRAME -> post_frame(self, gamestate, event_bytes)
      [] command = ITEM_UPDATE -> item_update(self, gamestate, event_bytes)
      [] OTHER -> Result(self, gamestate, "")

RECURSIVE EventLoop(_, _, _, _)

\* After the payload descriptor: the loop goes on behind payload_size + 1
\* bytes.
AfterPayloads(self, gamestate, event_bytes, stored, trace) ==
    IF stored.exc # ""
    THEN Outcome([self EXCEPT !.eventsize = stored.eventsize], gamestate, FALSE,
                 stored.exc, FALSE, event_bytes, "raised", trace)
    ELSE EventLoop([self EXCEPT !.eventsize = stored.eventsize], gamestate,
                   Drop(event_bytes, event_bytes[2] + 1), trace)

\* AfterBookend without line 355: the frame returned is not remembered.
AfterBookendForgets(r, rest, trace) ==
    IF r.gamestate.frame <= r.self.frame
    THEN Outcome(r.self, r.gamestate, FALSE, "", FALSE, rest, "bookend_old", trace)
    ELSE Outcome(r.self, r.gamestate, TRUE, "", FALSE, rest, "bookend", trace)

\* After the bookend: a frame that is not newer than the last one returned
\* is not returned.
AfterBookend(r, rest, trace) ==
    IF r.gamestate.frame <= r.self.frame
    THEN Outcome(r.self, r.gamestate, FALSE, "", FALSE, rest, "bookend_old", trace)
    ELSE Outcome([r.self EXCEPT !.frame = r.gamestate.frame], r.gamestate, TRUE,
                 "", FALSE, rest, "bookend", trace)

\* After a decoder the loop continues behind event_size bytes.  With an
\* event_size of 0, event_bytes[0:] is event_bytes: the loop repeats on the
\* same bytes for ever.
AfterDecode(r, event_bytes, event_size, trace) ==
    IF r.exc # ""
    THEN Outcome(r.self, r.gamestate, FALSE, r.exc, FALSE, event_bytes, "raised",
                 trace)
    ELSE IF event_size = 0
    THEN Outcome(r.self, r.gamestate, FALSE, "", TRUE, event_bytes, "hang", trace)
    ELSE EventLoop(r.self, r.gamestate, Drop(event_bytes, event_size), trace)

\* Route with a session-end record that ends the frame in every mode.
RouteGameEndReturns(self, gamestate, event_bytes, command, event_size, trace) ==
    IF Len(event_bytes) < event_size
    THEN Outcome(self, gamestate, FALSE, "", FALSE, event_bytes, "short", trace)
    ELSE IF command \notin EventTypeValues
    THEN Outcome(self, gamestate, FALSE, "ValueError", FALSE, event_bytes,
                 "invalid", trace)
    ELSE IF command = PAYLOADS
    THEN IF Len(event_bytes) < 2
         THEN Outcome(self, gamestate, FALSE, "IndexError", FALSE, event_bytes,
                      "raised", Append(trace, <<command, event_size>>))
         ELSE AfterPayloads(self, gamestate, event_bytes,
                  StorePayloads(self.uint8_wraps, self.eventsize, event_bytes, 0,
                                NumCommands(event_bytes[2])),
                  Append(trace, <<command, event_size>>))
    ELSE IF command = GAME_END
    THEN Outcome(self, gamestate, TRUE, "", FALSE,
                 Drop(event_bytes, event_size), "game_end",
                 Append(trace, <<command, event_size>>))
    ELSE IF command = FRAME_BOOKEND
    THEN AfterBookend(frame_bookend(self, gamestate, event_bytes),
                      Drop(event_bytes, event_size),
                      Append(trace, <<command, event_size>>))
    ELSE AfterDecode(Decode(command, self, gamestate, event_bytes),
                     event_bytes, event_size,
                     Append(trace, <<command, event_size>>))

\* One record, of a command the size table gives event_size for.
Route(self, gamestate, event_bytes, command, event_size, trace) ==
    IF Len(event_bytes) < event_size
    THEN Outcome(self, gamestate, FALSE, "", FALSE, event_bytes, "short", trace)
    ELSE IF command \notin EventTypeValues
    THEN Outcome(self, gamestate, FALSE, "ValueError", FALSE, event_bytes,
                 "invalid", trace)
    ELSE IF command = PAYLOADS
    THEN IF Len(event_bytes) < 2
         THEN Outcome(self, gamestate, FALSE, "IndexError", FALSE, event_bytes,
                      "raised", Append(trace, <<command, event_size>>))
         ELSE AfterPayloads(self, gamestate, event_bytes,
                  StorePayloads(self.uint8_wraps, self.eventsize, event_bytes, 0,
                                NumCommands(event_bytes[2])),
                  Append(trace, <<command, event_size>>))
    ELSE IF command = GAME_END
    THEN Outcome(self, gamestate, self.use_manual_bookends, "", FALSE,
                 Drop(event_bytes, event_size), "game_end",
                 Append(trace, <<command, event_size>>))
    ELSE IF command = FRAME_BOOKEND
    THEN AfterBookend(frame_bookend(self, gamestate, event_bytes),
                      Drop(event_bytes, event_size),
                      Append(trace, <<command, event_size>>))
    ELSE AfterDecode(Decode(command, self, gamestate, event_bytes),
                     event_bytes, event_size,
                     Append(trace, <<command, event_size>>))

EventLoop(self, gamestate, event_bytes, trace) ==
    IF Len(event_bytes) = 0
    THEN Outcome(self, gamestate, FALSE, "", FALSE, <<>>, "exhausted", trace)
    ELSE Route(self, gamestate, event_bytes, event_bytes[1],
               SizeOf(self.eventsize, event_bytes[1]), trace)

handle_slippstream_events(self, gamestate, event_bytes) ==
    EventLoop(self, [gamestate EXCEPT !.menu_state = "IN_GAME"], event_bytes, <<>>)

(***************************************************************************)
(* Console.__fixframeindexing, Console.__fixiasa                           *)
(***************************************************************************)
\* self.zero_indices, read from actiondata.csv: the (character, action)
\* pairs whose action frames the game counts from 0.
ZeroIndices == {<<1, 20>>, <<1, 252>>, <<2, 44>>, <<10, 13>>}

\* fixframeindexing run twice on a snapshot.
fixframeindexingTwice(gamestate) ==
    [gamestate EXCEPT
       !.player = [q \in DOMAIN @ |->
           IF <<@[q].character, @[q].action>> \in ZeroIndices
           THEN [@[q] EXCEPT !.action_frame = @ + 2] ELSE @[q]]]

fixframeindexing(gamestate) ==
    [gamestate EXCEPT
       !.player = [q \in DOMAIN @ |->
           IF <<@[q].character, @[q].action>> \in ZeroIndices
           THEN [@[q] EXCEPT !.action_frame = @ + 1] ELSE @[q]]]

\* __fixiasa with the test of the upper end of the range left out.
fixiasaBelowRange(gamestate) ==
    [gamestate EXCEPT
       !.player = [q \in DOMAIN @ |->
           IF @[q].action < NEUTRAL_ATTACK_1
           THEN [@[q] EXCEPT !.iasa = FALSE] ELSE @[q]]]

\* Console.__fixiasa (833-841)
fixiasa(gamestate) ==
    [gamestate EXCEPT
       !.player = [q \in DOMAIN @ |->
           IF @[q].action < NEUTRAL_ATTACK_1 \/ @[q].action > DAIR
           THEN [@[q] EXCEPT !.iasa = FALSE] ELSE @[q]]]

(***************************************************************************)
(* The records and messages the transport delivers                         *)
(***************************************************************************)
\* A record of `total` bytes: the command byte, then zeros except for the
\* fields of `puts`, each <<offset, bytes>>.
Build(total, command, puts) ==
    [i \in 1..total |->
       IF i = 1 THEN command
       ELSE LET hit == {p \in puts : i - 1 >= p[1] /\ i - 1 < p[1] + Len(p[2])}
            IN  IF hit = {} THEN 0
                ELSE LET p == CHOOSE p \in hit : TRUE IN p[2][i - p[1]]]

EncU16(n) == <<n \div 256, n % 256>>

EncU32(n) ==
    <<n \div 16777216, (n \div 65536) % 256, (n \div 256) % 256, n % 256>>

\* Big-endian two's complement of a 32-bit integer.
EncI32(n) ==
    IF n >= 0 THEN EncU32(n)
    ELSE LET u == EncU32((n + 1073741824) + 1073741824)
         IN  <<u[1] + 128, u[2], u[3], u[4]>>

\* IEEE-754 singles, big-endian.
Float ==
    [zero |-> <<0, 0, 0, 0>>, one |-> <<63, 128, 0, 0>>,
     minus_one |-> <<191, 128, 0, 0>>, half |-> <<63, 0, 0, 0>>,
     ninety |-> <<66, 180, 0, 0>>, minus_ten |-> <<193, 32, 0, 0>>,
     fifty_and_three_quarters |-> <<66, 75, 0, 0>>, sixty |-> <<66, 112, 0, 0>>,
     minus_twenty_eight_and_a_half |-> <<193, 228, 0, 0>>,
     nan |-> <<127, 192, 0, 0>>, minus_nan |-> <<255, 192, 0, 0>>]

RECURSIVE Concat(_)
Concat(seqs) == IF seqs = <<>> THEN <<>> ELSE Head(seqs) \o Concat(Tail(seqs))

\* The payload descriptor of a list of <<command, length>> pairs.
PayloadsRecord(entries) ==
    <<PAYLOADS, 1 + 3 * Len(entries)>>
      \o Concat([i \in 1..Len(entries) |->
                   <<entries[i][1]>> \o EncU16(entries[i][2])])

\* The payload lengths a stream declares (the record is one byte longer).  A
\* stream of the current revision carries the whole post-frame record, an
\* older one ends it after the action-frame counter.  Command 0x99 is one the
\* decoder does not know.
SizesFull ==
    <<<<GAME_START, \HE0>>, <<PRE_FRAME, \H32>>, <<POST_FRAME, \H68>>,
      <<GAME_END, \H1>>, <<FRAME_START, \H8>>, <<ITEM_UPDATE, \H2A>>,
      <<FRAME_BOOKEND, \H4>>, <<\H99, \H2>>>>

SizesOld ==
    <<<<GAME_START, \HE0>>, <<PRE_FRAME, \H32>>, <<POST_FRAME, \H25>>,
      <<GAME_END, \H1>>, <<FRAME_START, \H8>>, <<ITEM_UPDATE, \H2A>>,
      <<FRAME_BOOKEND, \H4>>>>

\* SizesFull with a code list of the greatest length the descriptor can
\* declare.
SizesOdd == Append(SizesFull, <<GECKO_CODES, \HFFFF>>)

GameStartRecord(slp_version, stage) ==
    Build(\HE1, GAME_START,
          {<<\H1, slp_version>>, <<\H13, EncU16(stage)>>,
           <<\H68, <<2>>>>, <<\H66 + \H24, <<1>>>>, <<\H74 + \H24, <<9>>>>,
           <<\H74 + 2 * \H24, <<7>>>>})

PreFrameRecord(raw_port, stick, buttonbits) ==
    Build(\H33, PRE_FRAME,
          {<<\H5, <<raw_port>>>>, <<\H19, stick>>, <<\H1D, Float.half>>,
           <<\H21, Float.minus_one>>, <<\H25, Float.one>>,
           <<\H31, EncU16(buttonbits)>>})

\* The post-frame record of `total` bytes; fields beyond `total` are cut off.
PostFrameRecord(total, frame, raw_port, character, action, x, y, action_frame) ==
    SubSeq(Build(\H69, POST_FRAME,
                 {<<\H1, EncI32(frame)>>, <<\H5, <<raw_port>>>>,
                  <<\H7, <<character>>>>, <<\H8, EncU16(action)>>,
                  <<\HA, x>>, <<\HE, y>>, <<\H12, Float.minus_one>>,
                  <<\H16, Float.fifty_and_three_quarters>>,
                  <<\H1A, Float.sixty>>, <<\H21, <<4>>>>, <<\H22, action_frame>>,
                  <<\H27, <<\H20>>>>, <<\H2B, Float.ninety>>, <<\H2F, <<1>>>>,
                  <<\H32, <<2>>>>, <<\H34, <<1>>>>, <<\H35, Float.one>>,
                  <<\H39, Float.minus_one>>, <<\H3D, Float.half>>,
                  <<\H41, Float.one>>, <<\H45, Float.minus_ten>>,
                  <<\H49, Float.one>>, <<\H4D, Float.ninety>>,
                  <<\H51, Float.one>>, <<\H55, Float.minus_one>>,
                  <<\H59, Float.minus_ten>>, <<\H5D, Float.one>>,
                  <<\H61, Float.ninety>>, <<\H65, Float.half>>}),
           1, total)

BookendRecord(frame) == Build(\H5, FRAME_BOOKEND, {<<\H1, EncI32(frame)>>})

ItemRecord(raw_owner, subtype) ==
    Build(\H2B, ITEM_UPDATE,
          {<<\H5, EncU16(subtype)>>, <<\HC, Float.one>>, <<\H10, Float.minus_one>>,
           <<\H14, Float.ninety>>, <<\H18, Float.minus_ten>>,
           <<\H2A, <<raw_owner>>>>})

\* The frame index of the first frame of a game.
FirstFrame == -123

\* A stream of the current revision: a game of two frames and its end, and
\* the first frame sent once more after it.
ModernStream ==
    <<PayloadsRecord(SizesFull), GameStartRecord(<<3, 2, 0>>, 32),
      PreFrameRecord(0, Float.one, \H1100),
      PostFrameRecord(\H69, FirstFrame, 0, 1, 14, Float.ninety, Float.minus_ten,
                      Float.one),
      BookendRecord(FirstFrame),
      Build(\H9, FRAME_START, {}),
      PostFrameRecord(\H69, FirstFrame + 1, 1, 1, 20, Float.one,
                      Float.minus_ten, Float.zero),
      ItemRecord(0, \H30),
      BookendRecord(FirstFrame + 1),
      Build(\H2, GAME_END, {}),
      PostFrameRecord(\H69, FirstFrame, 0, 1, 14, Float.nan, Float.minus_nan,
                      Float.one),
      BookendRecord(FirstFrame)>>

\* A stream of an old revision: short post-frame records.
OldStream ==
    <<PayloadsRecord(SizesOld), GameStartRecord(<<2, 0, 1>>, 32),
      PostFrameRecord(\H26, FirstFrame, 0, 1, 14, Float.ninety, Float.minus_ten,
                      Float.one),
      BookendRecord(FirstFrame),
      PostFrameRecord(\H26, FirstFrame + 1, 0, 1, 20, Float.one, Float.zero,
                      Float.one),
      Build(\H2, GAME_END, {})>>

\* A stream of the first revision that needs no manual bookends, with ids
\* the enums do not hold, a command the decoder does not know and a
\* descriptor entry of length 0xFFFF.
OddStream ==
    <<PayloadsRecord(SizesOdd), GameStartRecord(<<3, 0, 0>>, 85),
      ItemRecord(255, \H3000),
      PostFrameRecord(\H69, FirstFrame, 1, 1, \H3000, Float.zero, Float.zero,
                      Float.one),
      BookendRecord(FirstFrame),
      PostFrameRecord(\H69, FirstFrame + 1, 4, 1, 14, Float.one, Float.zero,
                      Float.one),
      BookendRecord(FirstFrame + 1),
      Build(\H3, \H99, {}),
      PostFrameRecord(\H69, FirstFrame + 2, 1, \H40, 14, Float.zero, Float.zero,
                      Float.one),
      BookendRecord(FirstFrame + 2)>>

\* A stream of the current revision with respawns and ledge catches: frame
\* 150 with two players, frame 149 sent once more, and frame 151 with four
\* players.
HaloStream ==
    <<PayloadsRecord(SizesFull), GameStartRecord(<<3, 2, 0>>, 31),
      PostFrameRecord(\H69, 150, 0, 10, ON_HALO_WAIT, Float.zero, Float.zero,
                      Float.zero),
      PostFrameRecord(\H69, 150, 1, 1, ON_HALO_DESCENT, Float.one, Float.zero,
                      Float.one),
      BookendRecord(150), ItemRecord(4, \H30),
      PostFrameRecord(\H69, 149, 0, 10, 14, Float.zero, Float.zero, Float.one),
      BookendRecord(149),
      PostFrameRecord(\H69, 151, 0, 10, 14, Float.zero, Float.zero, Float.one),
      PostFrameRecord(\H69, 151, 2, 1, EDGE_CATCHING, Float.ninety, Float.zero,
                      Float.one),
      PostFrameRecord(\H69, 151, 1, 1, ON_HALO_DESCENT, Float.one, Float.zero,
                      Float.one),
      PostFrameRecord(\H69, 151, 3, 1, EDGE_CATCHING, Float.ninety, Float.zero,
                      Float.zero),
      BookendRecord(151)>>

\* Two games of one frame each, the second with a frame index below the one
\* of the first.  The players of the first game are in the first and the last
\* of the standard attacks, those of the second in the actions next to them.
RematchStream ==
    <<PayloadsRecord(SizesFull), GameStartRecord(<<3, 2, 0>>, 32),
      PostFrameRecord(\H69, 150, 0, 1, NEUTRAL_ATTACK_1, Float.one, Float.zero,
                      Float.one),
      PostFrameRecord(\H69, 150, 1, 1, DAIR, Float.zero, Float.zero, Float.one),
      BookendRecord(150),
      Build(\H2, GAME_END, {}),
      GameStartRecord(<<3, 2, 0>>, 31),
      PostFrameRecord(\H69, FirstFrame, 0, 1, NEUTRAL_ATTACK_1 - 1, Float.one,
                      Float.zero, Float.one),
      PostFrameRecord(\H69, FirstFrame, 1, 1, DAIR + 1, Float.zero, Float.zero,
                      Float.one),
      BookendRecord(FirstFrame)>>

\* The streams by name.
Streams ==
    [modern |-> ModernStream, old |-> OldStream, odd |-> OddStream,
     halo |-> HaloStream, rematch |-> RematchStream]

\* The most records in one delivery, and the most bytes of a record that a
\* delivery may lack at its end.
MaxRecords == 5
MaxCut == 1

\* The transport hands the bytes of one stream on in order, from the record
\* the client connected at: `pos` is the next record, `lead` the number of
\* bytes of the record before it that are still to come.
Transports ==
    {t \in [stream : DOMAIN Streams, pos : 1..13, lead : {0}] :
       t.pos <= Len(Streams[t.stream])}

\* A delivery: the last `lead` bytes of record first - 1 (what the delivery
\* before lacked), then records first..last without the last `cut` bytes of
\* record `last`.  The transport cuts the stream where it likes, not where
\* records end.  With last = first - 1 the delivery holds no record.
DeliveriesFrom(t) ==
    {d \in [stream : {t.stream}, first : {t.pos},
            last : (t.pos - 1)..(t.pos + MaxRecords - 1),
            lead : {t.lead}, cut : 0..MaxCut] :
       /\ d.last <= Len(Streams[t.stream])
       /\ d.last < d.first => d.cut = 0}

\* The last n bytes of a record.
LastBytes(record, n) == SubSeq(record, Len(record) - n + 1, Len(record))

\* message["payload"] of a delivery.
Payload(d) ==
    LET t == Streams[d.stream]
        whole == Concat(SubSeq(t, d.first, d.last))
    IN  (IF d.lead > 0 THEN LastBytes(t[d.first - 1], d.lead) ELSE <<>>)
          \o SubSeq(whole, 1, Len(whole) - d.cut)

\* A menu event of `total` bytes; cursor_x is the cursor x of port 2,
\* cursor_y the cursor y of ports 1 and 2.
MenuRecord(total, scene, frame, status, cursor_x, cursor_y, stage, submenu, nametag) ==
    SubSeq(Build(\H41, 0,
                 {<<\H1, EncU16(scene)>>,
                  <<\H3, Float.minus_twenty_eight_and_a_half>>,
                  <<\H7, cursor_y>>,
                  <<\HB, cursor_x>>, <<\HF, cursor_y>>,
                  <<\H13, Float.ninety>>, <<\H17, Float.one>>,
                  <<\H1B, Float.zero>>, <<\H1F, Float.half>>,
                  <<\H23, <<1>>>>, <<\H24, <<stage>>>>,
                  <<\H25, <<status, 1, 3, 0>>>>, <<\H29, <<\HA, \H9, \H21, 0>>>>,
                  <<\H2D, <<2, 2, 0, 1>>>>,
                  <<\H31, Float.one>>, <<\H35, Float.minus_one>>,
                  <<\H39, EncI32(frame)>>, <<\H3D, <<submenu>>>>,
                  <<\H3E, <<3>>>>, <<\H3F, <<2>>>>, <<\H40, <<nametag>>>>}),
           1, total)

MenuEvents ==
    {MenuRecord(\H41, \H2, 7, 1, Float.one, Float.minus_one, 0, 2, 0),
     MenuRecord(\H41, \H102, 3, 0, Float.one, Float.one, \H77, 2, 0),
     MenuRecord(\H3D, \H1, 9, 0, Float.one, Float.one, 0, 0, 0),
     MenuRecord(\H41, \H8, 2, 0, Float.one, Float.minus_one, 0, \H63, 5),
     MenuRecord(\H41, \H2, 4, 2, Float.one, Float.one, 0, 0, 0),
     MenuRecord(\H3C, \H1, 9, 0, Float.one, Float.one, 0, 0, 0),
     MenuRecord(\H41, \H8, 5, 0, Float.nan, Float.minus_one, 0, 0, 0)}

(***************************************************************************)
(* Console.step                                                            *)
(***************************************************************************)
\* The most messages the transport delivers in one run.
MaxMessages == 3

\* Python's None
None == [none |-> TRUE]

VARIABLES
    self,            \* the fields of the Console object
    temp_gamestate,  \* self._temp_gamestate: the snapshot being built, or None
    pc,              \* "idle": outside step(); "in_step": in its message loop;
                     \* "raised": an exception left step(); "hang": the
                     \* dispatcher loops for ever; "stopped": stop() has
                     \* shut the transport down
    out,             \* the value the last step() returned
    exc,             \* the exception that left step(), "" for none
    last_msg,        \* the kind of the message handled last, "call" and
                     \* "stop" for the calls of step() and stop()
    last_call,       \* the last call of the dispatcher: the length of its
                     \* buffer, the bytes it had not consumed when it
                     \* returned, the branch it returned from, the records it
                     \* handed to a branch
    hist,            \* the snapshots returned so far: frame index, the
                     \* message that completed the frame, the number of
                     \* session-start records decoded before, the mode
    games,           \* the number of session-start records decoded
    messages,        \* the number of messages received
    received,        \* the deliveries of game events received so far
    transport        \* the stream the transport carries and how far it is

vars == <<self, temp_gamestate, pc, out, exc, last_msg, last_call, hist, games,
          messages, received, transport>>

\* Console.__init__
NewConsole(path, polling_mode, allow_old_version, uint8_wraps, iasa) ==
    [eventsize |-> <<>>, player_iasa |-> iasa, uint8_wraps |-> uint8_wraps, path |-> path,
     connected |-> FALSE, nick |-> "", version |-> "", cursor |-> 0,
     current_stage |-> "NO_STAGE", frame |-> 0,
     polling_mode |-> polling_mode, slp_version |-> <<>>,
     allow_old_version |-> allow_old_version, use_manual_bookends |-> FALSE,
     costumes |-> [i \in 0..3 |-> 0], cpu_level |-> [i \in 0..3 |-> 0],
     prev_gamestate |-> NewGameState, prev_alias |-> FALSE]

NoCall == [len |-> 0, rest |-> 0, why |-> "", trace |-> <<>>]

\* uint8_wraps tells that the console runs on NumPy 2 (NEP 50): an np.uint8
\* of 255 wraps when 1 is added, and np.float32 arithmetic with a Python
\* number stays float32.  Of the streams only the odd one has such a byte, and
\* none has coordinates whose squares need more than 24 bits: NumPy 2 is run
\* on the odd stream, with every menu event.  A console without a path differs
\* in stop() only, which does nothing then; it is run on the odd stream too.
\* player_iasa is the value of iasa in a new PlayerState, which console.py does
\* not decide: both values are run on the rematch stream, the stream with a
\* standard attack, with every menu event.
Init ==
    /\ transport \in Transports
    /\ \E path \in BOOLEAN, polling_mode \in {TRUE},
          allow_old_version \in BOOLEAN, uint8_wraps \in BOOLEAN,
          iasa \in BOOLEAN :
         /\ uint8_wraps => transport.stream = "odd"
         /\ ~path => transport.stream = "odd"
         /\ iasa => transport.stream = "rematch"
         /\ self = NewConsole(path, polling_mode, allow_old_version,
                              uint8_wraps, iasa)
    /\ temp_gamestate = None
    /\ pc = "idle"
    /\ out = None
    /\ exc = ""
    /\ last_msg = ""
    /\ last_call = NoCall
    /\ hist = <<>>
    /\ games = 0
    /\ messages = 0
    /\ received = <<>>

\* The number of session-start records among the records of a trace.
RECURSIVE GameStarts(_)
GameStarts(trace) ==
    IF trace = <<>> THEN 0
    ELSE (IF Head(trace)[1] = GAME_START THEN 1 ELSE 0) + GameStarts(Tail(trace))

\* step() up to its message loop.
StepCall ==
    /\ pc = "idle"
    /\ pc' = "in_step"
    /\ temp_gamestate' = IF temp_gamestate = None THEN NewGameState
                         ELSE temp_gamestate
    /\ last_msg' = "call"
    /\ UNCHANGED <<self, out, exc, last_call, hist, games, messages, received,
                   transport>>

\* step() after its message loop: the snapshot is fixed up and returned.  The
\* previous snapshot, when it is this very object, is fixed up with it.
Return(s, gamestate, via, started) ==
    LET fixed == fixiasa(fixframeindexing(gamestate))
    IN  /\ out' = fixed
        /\ temp_gamestate' = None
        /\ self' = IF s.prev_alias
                   THEN [s EXCEPT !.prev_gamestate = fixed, !.prev_alias = FALSE]
                   ELSE s
        /\ pc' = "idle"
        /\ hist' = Append(hist, [frame |-> fixed.frame, via |-> via,
                                 games |-> started,
                                 manual |-> s.use_manual_bookends,
                                 gamestate |-> fixed])
        /\ UNCHANGED exc

\* An exception leaves step().
Raise(s, gamestate, e) ==
    /\ pc' = "raised"
    /\ exc' = e
    /\ self' = s
    /\ temp_gamestate' = gamestate
    /\ UNCHANGED <<out, hist>>

\* The loop goes on to the next message.
Continue(s, gamestate) ==
    /\ self' = s
    /\ temp_gamestate' = gamestate
    /\ UNCHANGED <<pc, out, exc, hist>>

Receiving == pc = "in_step" /\ messages < MaxMessages

\* The outcome o of the dispatcher on a payload of len bytes.
GameEventDone(o, len) ==
    /\ last_call' = [len |-> len, rest |-> Len(o.rest), why |-> o.why,
                     trace |-> o.trace]
    /\ games' = games + GameStarts(o.trace)
    /\ IF o.exc # "" THEN Raise(o.self, o.gamestate, o.exc)
       ELSE IF o.hang
       THEN /\ pc' = "hang"
            /\ self' = o.self
            /\ temp_gamestate' = o.gamestate
            /\ UNCHANGED <<out, exc, hist>>
       ELSE IF o.ret
       THEN Return(o.self, o.gamestate, o.why, games + GameStarts(o.trace))
       ELSE Continue(o.self, o.gamestate)

RecvGameEvent ==
    /\ Receiving
    /\ \E d \in DeliveriesFrom(transport) :
         /\ GameEventDone(IF Len(Payload(d)) > 0
                          THEN handle_slippstream_events(self, temp_gamestate,
                                                         Payload(d))
                          ELSE Outcome(self, temp_gamestate, FALSE, "", FALSE,
                                       <<>>, "empty", <<>>),
                          Len(Payload(d)))
         /\ received' = Append(received, d)
         /\ transport' = [transport EXCEPT !.pos = d.last + 1, !.lead = d.cut]
    /\ last_msg' = "game_event"
    /\ messages' = messages + 1

MenuEventDone(r) ==
    IF r.exc # "" THEN Raise(r.self, r.gamestate, r.exc)
    ELSE Return(r.self, r.gamestate, "menu_event", games)

RecvMenuEvent ==
    /\ Receiving
    /\ \E payload \in MenuEvents :
         MenuEventDone(handle_slippstream_menu_event(self, temp_gamestate, payload))
    /\ last_msg' = "menu_event"
    /\ messages' = messages + 1
    /\ UNCHANGED <<last_call, games, received, transport>>

\* RecvFrameEnd without the test of self._use_manual_bookends of line 294.
RecvFrameEndAnyMode ==
    /\ Receiving
    /\ IF self.frame # NO_FRAME
       THEN Return(self, temp_gamestate, "frame_end", games)
       ELSE Continue(self, temp_gamestate)
    /\ last_msg' = "frame_end"
    /\ messages' = messages + 1
    /\ UNCHANGED <<last_call, games, received, transport>>

\* RecvFrameEnd without the test of self._frame of line 294.
RecvFrameEndAnyFrame ==
    /\ Receiving
    /\ IF self.use_manual_bookends
       THEN Return(self, temp_gamestate, "frame_end", games)
       ELSE Continue(self, temp_gamestate)
    /\ last_msg' = "frame_end"
    /\ messages' = messages + 1
    /\ UNCHANGED <<last_call, games, received, transport>>

RecvFrameEnd ==
    /\ Receiving
    /\ IF self.use_manual_bookends /\ self.frame # NO_FRAME
       THEN Return(self, temp_gamestate, "frame_end", games)
       ELSE Continue(self, temp_gamestate)
    /\ last_msg' = "frame_end"
    /\ messages' = messages + 1
    /\ UNCHANGED <<last_call, games, received, transport>>

RecvConnectReply ==
    /\ Receiving
    /\ Continue([self EXCEPT !.connected = TRUE, !.nick = "nick",
                             !.version = "version", !.cursor = 1],
                temp_gamestate)
    /\ last_msg' = "connect_reply"
    /\ messages' = messages + 1
    /\ UNCHANGED <<last_call, games, received, transport>>

\* RecvNone with the snapshot being built thrown away on the way out.
RecvNoneDropsSnapshot ==
    /\ pc = "in_step"
    /\ self.polling_mode
    /\ pc' = "idle"
    /\ out' = None
    /\ temp_gamestate' = None
    /\ last_msg' = "none"
    /\ UNCHANGED <<self, exc, last_call, hist, games, messages, received,
                   transport>>

\* dispatch() has no message: step() returns None.
RecvNone ==
    /\ pc = "in_step"
    /\ self.polling_mode
    /\ pc' = "idle"
    /\ out' = None
    /\ last_msg' = "none"
    /\ UNCHANGED <<self, temp_gamestate, exc, last_call, hist, games, messages,
                   received, transport>>

\* Console.stop, called between two calls of step(): with a path the
\* console is marked as not connected and the transport is shut down, which
\* ends the run; without one nothing happens.  self.path stands for its
\* truth value.
Stop ==
    /\ pc = "idle"
    /\ IF self.path
       THEN /\ self' = [self EXCEPT !.connected = FALSE]
            /\ pc' = "stopped"
       ELSE UNCHANGED <<self, pc>>
    /\ last_msg' = "stop"
    /\ UNCHANGED <<temp_gamestate, out, exc, last_call, hist, games, messages,
                   received, transport>>

Next ==
    \/ StepCall
    \/ RecvGameEvent
    \/ RecvMenuEvent
    \/ RecvFrameEnd
    \/ RecvConnectReply
    \/ RecvNone
    \/ Stop

Spec == Init /\ [][Next]_vars

(***************************************************************************)
(* The claims                                                              *)
(***************************************************************************)
\* C1 as stated: the frame indices of the snapshots step() returns are
\* strictly increasing, whatever messages arrive.
C1_FramesStrictlyIncrease ==
    \A i, j \in DOMAIN hist : i < j => hist[i].frame < hist[j].frame

\* C1 amended: the frame indices of the snapshots step() returns for a
\* frame-bookend record are strictly increasing as long as no session-start
\* record is decoded in between and legacy-bookend mode is off.
C1_BookendFramesIncrease ==
    \A i, j \in DOMAIN hist :
       (/\ i < j
        /\ hist[i].via = "bookend" /\ hist[j].via = "bookend"
        /\ hist[i].games = hist[j].games
        /\ ~hist[i].manual /\ ~hist[j].manual)
       => hist[i].frame < hist[j].frame

\* Two frames of one game were returned at their bookends, and a bookend of
\* a frame that is not newer has been refused since.
C1_TwoFramesReturned ==
    /\ Len(hist) >= 2
    /\ hist[1].via = "bookend" /\ hist[2].via = "bookend"
    /\ hist[1].games = hist[2].games
    /\ ~hist[1].manual /\ ~hist[2].manual
    /\ last_call.why = "bookend_old"

\* The snapshot step() returns for one call of the dispatcher that ends a
\* frame.
Snapshot(o) == fixiasa(fixframeindexing(o.gamestate))

\* A fresh console decoding records 1..last of the stream of delivery d as
\* one buffer.
Unsplit(d, last) ==
    handle_slippstream_events(
        NewConsole(self.path, self.polling_mode, self.allow_old_version,
                   self.uint8_wraps, self.player_iasa), NewGameState,
        Payload([stream |-> d.stream, first |-> 1, last |-> last, lead |-> 0,
                 cut |-> 0]))

\* C2: a record cut by the end of a delivery is decoded once the next
\* delivery brings the rest.  When a stream that ends a frame with its last
\* record arrives in two deliveries, the first one ending inside a record,
\* step() returns the snapshot it returns for the stream in one delivery.
C2_SplitStreamSameSnapshot ==
    (/\ messages = 2 /\ Len(received) = 2 /\ last_msg = "game_event"
     /\ received[1].first = 1 /\ received[1].cut > 0 /\ received[2].cut = 0
     /\ Unsplit(received[1], received[2].last).ret
     /\ Unsplit(received[1], received[2].last).rest = <<>>)
    => /\ pc = "idle"
       /\ out = Snapshot(Unsplit(received[1], received[2].last))

\* C3: the records behind a frame-bookend in a delivery are decoded for a
\* later step().  When records 3..7 of the odd stream (two whole frames)
\* arrive in one delivery, two snapshots have been returned by the time
\* step() finds no message left.
C3_TwoFramesTwoSnapshots ==
    (/\ messages = 2 /\ last_msg = "none"
     /\ received = <<[stream |-> "odd", first |-> 1, last |-> 2, lead |-> 0,
                     cut |-> 0],
                    [stream |-> "odd", first |-> 3, last |-> 7, lead |-> 0,
                     cut |-> 0]>>)
    => Len(hist) = 2

\* The last delivery is one record of a command with a registered length,
\* without its last `cut` bytes.
OneRegisteredRecord(cut) ==
    /\ last_msg = "game_event"
    /\ LET d == received[Len(received)]
       IN  /\ d.first = d.last /\ d.lead = 0 /\ d.cut = cut
           /\ Payload(d)[1] # PAYLOADS
           /\ SizeOf(self.eventsize, Payload(d)[1]) = Len(Payload(d)) + cut

\* C4: a buffer of exactly the registered length L of its command is
\* consumed whole (unless the session-start in it is refused for its
\* version), and a buffer of L - 1 bytes is left alone: no decoder runs.
C4_RegisteredLengthConsumed ==
    /\ (OneRegisteredRecord(0) /\ exc # "SlippiVersionTooLow")
         => last_call.rest = 0
    /\ OneRegisteredRecord(1)
         => (last_call.why = "short" /\ last_call.trace = <<>>)

\* C5: a record of a command without a registered length is never decoded:
\* every record handed to a decoder, the payload descriptor aside, has a
\* length in the size table.
C5_UnregisteredNeverDecoded ==
    \A i \in DOMAIN last_call.trace :
       last_call.trace[i][1] # PAYLOADS => last_call.trace[i][2] > 0

\* C6: once a session-start record is decoded, legacy-bookend mode is on
\* exactly when its version is below 3.0.0 and allow_old_version is set, and
\* SlippiVersionTooLow is raised exactly when its version is below 3.0.0 and
\* allow_old_version is not set.
C6_LegacyModeByVersion ==
    (games > 0 /\ self.slp_version # <<>>)
    => /\ self.use_manual_bookends
            <=> (self.slp_version[1] < 3 /\ self.allow_old_version)
       /\ (exc = "SlippiVersionTooLow")
            <=> (self.slp_version[1] < 3 /\ ~self.allow_old_version)

\* A session-start of version 2.0.1 has put a console that allows old
\* versions into legacy-bookend mode.
C6_LegacyModeOn ==
    /\ games > 0 /\ self.slp_version = <<2, 0, 1>>
    /\ self.allow_old_version /\ self.use_manual_bookends /\ exc = ""

\* C7: no unmapped id in a record raises an error: in a stream received
\* from its payload descriptor on, a decoder never leaves the dispatcher with
\* a ValueError.
C7_UnmappedIdsNeverRaise ==
    (/\ last_msg = "game_event" /\ last_call.why = "raised"
     /\ received[1].first = 1)
    => exc # "ValueError"

\* The (command, length) pairs the payload descriptor of the stream lists.
Declared ==
    IF transport.stream = "old" THEN SizesOld
    ELSE IF transport.stream = "odd" THEN SizesOdd
    ELSE SizesFull

\* C8: a step changes the size table only by decoding a payload descriptor;
\* the table holds, for commands the descriptor lists, the listed length
\* plus one, and for all of them once the descriptor is decoded.
C8_OnlyPayloadsSetsSizes ==
    [][/\ self'.eventsize # self.eventsize
            => /\ last_msg' = "game_event"
               /\ \E i \in DOMAIN last_call'.trace :
                     last_call'.trace[i][1] = PAYLOADS
       /\ \A c \in DOMAIN self'.eventsize :
            \E i \in DOMAIN Declared :
               Declared[i][1] = c /\ self'.eventsize[c] = Declared[i][2] + 1
       /\ (self'.eventsize # self.eventsize /\ exc' = "")
            => \A i \in DOMAIN Declared :
                  SizeOf(self'.eventsize, Declared[i][1]) = Declared[i][2] + 1
      ]_vars

\* Records 1..5 of the modern stream (payload descriptor, session-start
\* 3.2.0 on stage 32, pre-frame and post-frame of port 1, bookend) are all
\* the console has received, in deliveries that end where records end.
C9_ScenarioDelivered ==
    /\ Len(received) >= 1 /\ messages = Len(received)
    /\ last_msg = "game_event"
    /\ received[1].stream = "modern" /\ received[1].first = 1
    /\ received[Len(received)].first <= 5 /\ received[Len(received)].last = 5
    /\ \A i \in DOMAIN received : received[i].cut = 0

\* C9: the scenario yields exactly one snapshot: its frame is the one the
\* bookend declares, its stage the one of the session-start, and its player
\* of port 1 holds the values of the pre-frame record (sticks, buttons,
\* costume) and of the post-frame record.
C9_ScenarioSnapshot ==
    C9_ScenarioDelivered
    => /\ Len(hist) = 1 /\ pc = "idle" /\ out # None
       /\ out.frame = I32(ModernStream[5], 1)
       /\ out.frame = FirstFrame
       /\ out.stage = "FINAL_DESTINATION"
       /\ DOMAIN out.player = {1}
       /\ out.player[1].x = 360 /\ out.player[1].y = -40
       /\ out.player[1].character = 1 /\ out.player[1].action = 14
       /\ out.player[1].action_frame = 1 /\ out.player[1].percent = 50
       /\ out.player[1].stock = 4 /\ ~out.player[1].facing
       /\ out.player[1].hitlag /\ out.player[1].jumps_left = 2
       /\ out.player[1].controller_state.main_stick = <<8, 6>>
       /\ out.player[1].controller_state.button = {"BUTTON_A", "BUTTON_START"}
       /\ out.player[1].costume = 2

\* The scenario has arrived in two deliveries.
C9_ScenarioInTwoDeliveries == C9_ScenarioDelivered /\ Len(received) = 2

\* The fields behind the action-frame counter have their defaults.
TailDefaults(playerstate) ==
    /\ ~playerstate.hitlag /\ playerstate.hitstun_frames_left = 0
    /\ playerstate.on_ground /\ playerstate.jumps_left = 1
    /\ ~playerstate.invulnerable
    /\ playerstate.speed_air_x_self = 0 /\ playerstate.speed_y_self = 0
    /\ playerstate.speed_x_attack = 0 /\ playerstate.speed_y_attack = 0
    /\ playerstate.speed_ground_x_self = 0
    /\ playerstate.ecb_top = <<0, 0>> /\ playerstate.ecb_bottom = <<0, 0>>
    /\ playerstate.ecb_left = <<0, 0>> /\ playerstate.ecb_right = <<0, 0>>

\* C10: the post-frame records of the old stream end behind the
\* action-frame counter, as its payload descriptor declares, so every player
\* decoded from them has the defaults in the fields behind it, whatever
\* follows the record in the buffer.
C10_ShortRecordTailDefaults ==
    (/\ transport.stream = "old" /\ last_msg = "game_event"
     /\ received[1].first = 1 /\ exc = "" /\ temp_gamestate # None)
    => \A port \in DOMAIN temp_gamestate.player :
          TailDefaults(temp_gamestate.player[port])

\* The snapshots of a game: the one being built and the one returned last.
GameSnapshots ==
    {g \in {temp_gamestate, out} : g # None /\ g.menu_state = "IN_GAME"}

\* The player is beyond the ground edge of the stage / below -6 (positions
\* count quarters).
BeyondEdge(playerstate, stage) ==
    /\ EDGE_GROUND_POSITION(stage) # -1
    /\ playerstate.x # FixNaN
    /\ (playerstate.x > EDGE_GROUND_POSITION(stage)
        \/ 0 - playerstate.x > EDGE_GROUND_POSITION(stage))

BelowStage(playerstate) == playerstate.y # FixNaN /\ playerstate.y < -24

\* C11 as stated: a player is off stage exactly when it is beyond the ground
\* edge of the stage and below -6 and airborne.
C11_OffStageAllThree ==
    \A g \in GameSnapshots : \A port \in DOMAIN g.player :
       g.player[port].off_stage
         <=> (/\ BeyondEdge(g.player[port], g.stage)
              /\ BelowStage(g.player[port])
              /\ ~g.player[port].on_ground)

\* C11 amended: a player is off stage exactly when the stage has a known
\* ground edge, the player is airborne, and it is beyond the edge or below
\* -6 (one of the two is enough).
C11_OffStageEither ==
    \A g \in GameSnapshots : \A port \in DOMAIN g.player :
       g.player[port].off_stage
         <=> (/\ EDGE_GROUND_POSITION(g.stage) # -1
              /\ (BeyondEdge(g.player[port], g.stage)
                  \/ BelowStage(g.player[port]))
              /\ ~g.player[port].on_ground)

\* step() has returned a snapshot with a player that is off stage within the
\* edges, below -6, and the snapshot being built holds an airborne player at
\* a NaN position, which is not off stage.
C11_OffStageWithinEdges ==
    /\ \E i \in 1..Len(hist) :
          /\ hist[i].gamestate.menu_state = "IN_GAME"
          /\ \E port \in DOMAIN hist[i].gamestate.player :
                /\ hist[i].gamestate.player[port].off_stage
                /\ ~BeyondEdge(hist[i].gamestate.player[port],
                               hist[i].gamestate.stage)
                /\ BelowStage(hist[i].gamestate.player[port])
    /\ temp_gamestate # None /\ temp_gamestate.menu_state = "IN_GAME"
    /\ EDGE_GROUND_POSITION(temp_gamestate.stage) # -1
    /\ \E port \in DOMAIN temp_gamestate.player :
          /\ temp_gamestate.player[port].x = FixNaN
          /\ temp_gamestate.player[port].y = FixNaN
          /\ ~temp_gamestate.player[port].on_ground
          /\ ~temp_gamestate.player[port].off_stage

\* The actions that set the invulnerability countdown.
OverridingActions == {ON_HALO_WAIT, ON_HALO_DESCENT, EDGE_CATCHING}

\* Snapshots i and i + 1 of those step() returned are both of a game.
ConsecutiveGameplay(i) ==
    /\ i \in 1..(Len(hist) - 1)
    /\ hist[i].gamestate.menu_state = "IN_GAME"
    /\ hist[i + 1].gamestate.menu_state = "IN_GAME"

\* The countdown of `port` in `later` is the one of `earlier` less one,
\* floored at 0.
CarriedCountdown(earlier, later, port) ==
    later.player[port].invulnerability_left
      = Max(0, earlier.player[port].invulnerability_left - 1)

\* C12: a port present in two consecutively returned gameplay snapshots
\* whose action in the later one sets no countdown has the countdown of the
\* earlier snapshot less one, floored at 0, in the later one.
C12_CountdownCarried ==
    \A i \in 1..(Len(hist) - 1) :
       ConsecutiveGameplay(i) =>
         \A port \in DOMAIN hist[i].gamestate.player
                       \cap DOMAIN hist[i + 1].gamestate.player :
            hist[i + 1].gamestate.player[port].action \notin OverridingActions
              => CarriedCountdown(hist[i].gamestate, hist[i + 1].gamestate,
                                  port)

\* The countdown that `playerstate` of the i-th returned snapshot must have
\* by its action, or -1 if the action sets none there.  A descent from the
\* respawn platform sets none up to frame 150: in the first snapshot
\* returned, where nothing is carried, the countdown is then 0.
OverriddenCountdown(i, playerstate) ==
    IF playerstate.action = ON_HALO_WAIT THEN 120
    ELSE IF playerstate.action = ON_HALO_DESCENT
    THEN IF hist[i].gamestate.frame > 150 THEN 120
         ELSE IF i = 1 THEN 0 ELSE -1
    ELSE IF playerstate.action = EDGE_CATCHING /\ playerstate.action_frame = 1
    THEN 36
    ELSE -1

\* C13: in every returned gameplay snapshot the countdown is 120 for a player
\* idle on the respawn platform, 120 for a player descending from it after
\* frame 150 and not set by the descent up to frame 150, and 36 for a player
\* catching the ledge whose action-frame counter in the snapshot is 1.
C13_CountdownOverrides ==
    \A i \in 1..Len(hist) :
       hist[i].gamestate.menu_state = "IN_GAME" =>
         \A port \in DOMAIN hist[i].gamestate.player :
            \/ OverriddenCountdown(i, hist[i].gamestate.player[port]) = -1
            \/ hist[i].gamestate.player[port].invulnerability_left
                 = OverriddenCountdown(i, hist[i].gamestate.player[port])

\* Every delivery so far is a run of whole records of the modern, the halo
\* or the rematch stream, the first one from the payload descriptor on: the
\* records of
\* these streams have the lengths the descriptor declares, so the dispatcher
\* decodes record by record.
WholeRecords ==
    /\ received # <<>>
    /\ received[1].first = 1
    /\ \A k \in 1..Len(received) :
         /\ received[k].stream \in {"modern", "halo", "rematch"}
         /\ received[k].cut = 0 /\ received[k].lead = 0

\* The dispatcher leaves the payload at a frame-bookend and at a session-end
\* record.
Leaves(record) == record[1] \in {FRAME_BOOKEND, GAME_END}

\* The records of delivery d that the dispatcher decodes.
DecodedRecords(d) ==
    {j \in d.first..d.last :
       \A h \in d.first..(j - 1) : ~Leaves(Streams[d.stream][h])}

\* The post-frame records for `port` decoded so far.
PostFramesOf(port) ==
    {j \in UNION {DecodedRecords(received[k]) : k \in 1..Len(received)} :
       /\ Streams[received[1].stream][j][1] = POST_FRAME
       /\ U8(Streams[received[1].stream][j], \H5) + 1 = port}

\* The action-frame counter of a post-frame record, as sent.
RawActionFrame(record) == IntOf(F32(record, \H22))

LastOf(S) == CHOOSE j \in S : \A h \in S : h <= j

\* The action-frame counter that `playerstate` of port `port` must present:
\* the counter of the post-frame record decoded last for the port, plus one
\* for a zero-indexed pair of character and action.
PresentedActionFrame(port, playerstate) ==
    RawActionFrame(Streams[received[1].stream][LastOf(PostFramesOf(port))])
      + (IF <<playerstate.character, playerstate.action>> \in ZeroIndices
         THEN 1 ELSE 0)

\* step() has just returned a snapshot for a game event.
ReturnedForGameEvent ==
    pc = "idle" /\ last_msg = "game_event" /\ out # None

\* C14: in a snapshot that step() returns, a player whose pair of character
\* and action is zero-indexed has the action-frame counter of the post-frame
\* record decoded last for its port plus 1, and any other player has that
\* counter itself, however many deliveries, discarded bookends and empty
\* polls went into the snapshot.
C14_ReindexedOnce ==
    (ReturnedForGameEvent /\ WholeRecords) =>
       \A port \in DOMAIN out.player :
          PostFramesOf(port) # {} =>
             out.player[port].action_frame
               = PresentedActionFrame(port, out.player[port])

\* Frame 151 of the halo stream is returned after the discarded bookend of
\* frame 149, with zero-indexed players (ports 3 and 4) and a player that is
\* not (port 1).
C14_ReindexedAfterDiscard ==
    /\ ReturnedForGameEvent /\ WholeRecords
    /\ received[1].stream = "halo" /\ Len(received) = 3
    /\ out.frame = 151 /\ Len(hist) = 2
    /\ out.player[1].action_frame = 1
    /\ out.player[3].action_frame = 2
    /\ out.player[4].action_frame = 1

\* C15: the players of the snapshot being built and of the snapshot returned
\* last have ports 1 to 4, whatever the port bytes of the pre-frame and
\* post-frame records decoded.  (Stated for the streams decoded from their
\* payload descriptor on.)
C15_PlayerPortsOneToFour ==
    (received # <<>> /\ received[1].first = 1) =>
       \A g \in {temp_gamestate, out} \ {None} : DOMAIN g.player \subseteq Ports

\* The owner that C16 gives a projectile whose record has the owner byte b.
OwnerByClaim(b) == IF b + 1 <= 4 THEN b + 1 ELSE -1

\* The owner bytes of the item-update records of the stream delivered.
OwnerBytes ==
    {U8(Streams[transport.stream][j], \H2A) :
       j \in {h \in DOMAIN Streams[transport.stream] :
                Streams[transport.stream][h][1] = ITEM_UPDATE}}

\* C16: every projectile of the snapshot being built and of the snapshot
\* returned last has the owner b + 1 if b + 1 <= 4 and -1 otherwise, for
\* the owner byte b of an item-update record of the stream (-1 as well when
\* the record ends before the byte): an owner is one of 1, 2, 3, 4 and -1,
\* also for b = 255.
C16_OwnerOneToFourOrNone ==
    \A g \in {temp_gamestate, out} \ {None} :
       \A i \in DOMAIN g.projectiles :
          /\ g.projectiles[i].owner \in Ports \cup {-1}
          /\ \/ g.projectiles[i].owner = -1
             \/ \E b \in OwnerBytes :
                  g.projectiles[i].owner = OwnerByClaim(b)

\* step() returns None because dispatch() had no message.
EmptyPoll == pc = "in_step" /\ pc' = "idle" /\ last_msg' = "none"

\* step() is called again while a snapshot is being built.
CalledAgain == pc = "idle" /\ pc' = "in_step" /\ temp_gamestate # None

\* C17: in polling mode a step() that finds no message returns None and
\* leaves the snapshot being built, the console and the snapshots returned
\* so far as they are; the next step() goes on with that snapshot, so what
\* was decoded before the empty poll is in the snapshot returned later; and
\* a snapshot that is returned is no longer the one being built, so none is
\* returned twice.
C17_EmptyPollKeepsSnapshot ==
    [][/\ EmptyPoll => /\ out' = None
                       /\ temp_gamestate' = temp_gamestate
                       /\ self' = self /\ hist' = hist
       /\ CalledAgain => temp_gamestate' = temp_gamestate
       /\ hist' # hist => /\ temp_gamestate' = None
                          /\ Len(hist') = Len(hist) + 1
                          /\ out' = hist'[Len(hist')].gamestate]_vars

\* step() has returned None on an empty poll while the snapshot being built
\* holds the players of a frame whose bookend is still to come, after an
\* earlier snapshot was returned.
C17_EmptyPollWithPlayers ==
    /\ pc = "idle" /\ last_msg = "none" /\ out = None
    /\ hist # <<>>
    /\ temp_gamestate # None
    /\ DOMAIN temp_gamestate.player # {}
    /\ temp_gamestate.frame > hist[Len(hist)].frame

\* step() hands a message to its handlers in legacy-bookend mode.
LegacyMessage == pc = "in_step" /\ self.use_manual_bookends /\ messages' # messages

\* The message is a game event that takes the last-seen frame index from
\* one frame to another and ends normally.
FrameIndexMoves ==
    /\ last_msg' = "game_event" /\ pc' \in {"in_step", "idle"}
    /\ self.frame # NO_FRAME /\ self'.frame # NO_FRAME
    /\ self'.frame # self.frame

\* C18 as stated: in legacy-bookend mode the decoder signals the completion
\* of a frame when a post-frame record has a frame index other than the
\* last-seen one, so step() returns a snapshot for such a game event.
C18_IndexChangeEndsFrame ==
    [][(LegacyMessage /\ FrameIndexMoves) => hist' # hist]_vars

\* C18 amended: in legacy-bookend mode a post-frame record only stores its
\* frame index as the last-seen one.  step() returns a snapshot for a
\* frame_end message of the transport once a frame index was seen after the
\* session start, for a session-end record, for a frame-bookend record that
\* passes the comparison with the last-seen index, and for a menu event, and
\* for nothing else.
C18_TransportEndsFrame ==
    [][LegacyMessage =>
         (hist' # hist <=>
            \/ last_msg' = "frame_end" /\ self.frame # NO_FRAME
            \/ last_msg' = "menu_event" /\ pc' = "idle"
            \/ last_msg' = "game_event" /\ pc' = "idle"
                 /\ last_call'.why \in {"game_end", "bookend"})]_vars

\* In legacy-bookend mode the post-frames of frames -123 and -122 are decoded
\* without a snapshot being returned, and the frame_end message that follows
\* returns the snapshot, which has the later frame index.
C18_FrameEndReturned ==
    /\ self.use_manual_bookends /\ last_msg = "frame_end"
    /\ Len(hist) = 1 /\ hist[1].via = "frame_end"
    /\ out # None /\ out.frame = FirstFrame + 1

\* The dispatcher has left the payload of a game event at a session-end
\* record.
LeftAtGameEnd ==
    pc = "in_step" /\ last_msg' = "game_event" /\ last_call'.why = "game_end"

\* C19: a session-end record makes step() return the snapshot exactly when
\* legacy-bookend mode is on; with the mode off, step() returns nothing for
\* it and goes on.
C19_GameEndByMode ==
    [][LeftAtGameEnd =>
         /\ hist' # hist <=> self'.use_manual_bookends
         /\ self'.use_manual_bookends
              => /\ pc' = "idle" /\ out' = hist'[Len(hist')].gamestate
                 /\ hist'[Len(hist')].via = "game_end"
         /\ ~self'.use_manual_bookends
              => pc' = "in_step" /\ out' = out]_vars

\* The session-end record of the old stream, in legacy-bookend mode, has
\* made step() return the snapshot of its last frame.
C19_GameEndReturned ==
    /\ self.use_manual_bookends /\ last_call.why = "game_end"
    /\ pc = "idle" /\ last_msg = "game_event"
    /\ hist # <<>> /\ hist[Len(hist)].via = "game_end"
    /\ out # None /\ out.frame = FirstFrame + 1

\* The session-end record of the modern stream, decoded after its two
\* frames were returned, returns nothing.
C19_GameEndSilent ==
    /\ ~self.use_manual_bookends /\ last_call.why = "game_end"
    /\ pc = "in_step" /\ last_msg = "game_event"
    /\ Len(hist) = 2 /\ self.slp_version = <<3, 2, 0>>

\* C20: the menu decoder raises nothing over a short buffer.  Every menu
\* event of the model holds the scene id, so none of them makes a read of
\* the decoder fail: no TypeError leaves step() on a menu event.
C20_MenuReadsTolerateShortBuffer ==
    last_msg = "menu_event" => ~(pc = "raised" /\ exc = "TypeError")

\* The i-th snapshot returned was returned at a frame-bookend and holds two
\* players or more.
BookendSnapshot(i) ==
    /\ hist[i].via = "bookend"
    /\ Cardinality(DOMAIN hist[i].gamestate.player) >= 2

\* The distance between the players at positions a and b.
Between(a, b) == Distance(self.uint8_wraps, a[1] - b[1], a[2] - b[2])

\* C21 as stated: the distance of a snapshot returned at a frame-bookend is
\* the distance between the players of its two lowest ports.
C21_DistanceOfLowestPorts ==
    \A i \in 1..Len(hist) :
       BookendSnapshot(i) =>
          hist[i].gamestate.distance
            = Between(PlayerXYLowest(hist[i].gamestate, 1),
                      PlayerXYLowest(hist[i].gamestate, 2))

\* C21 amended: the distance of a snapshot returned at a frame-bookend is
\* the distance between the two players that were entered first into the
\* snapshot, in the order in which their ports first appeared in a record.
C21_DistanceOfFirstPorts ==
    \A i \in 1..Len(hist) :
       BookendSnapshot(i) =>
          hist[i].gamestate.distance
            = Between(<<hist[i].gamestate.player[hist[i].gamestate.ports[1]].x,
                        hist[i].gamestate.player[hist[i].gamestate.ports[1]].y>>,
                      <<hist[i].gamestate.player[hist[i].gamestate.ports[2]].x,
                        hist[i].gamestate.player[hist[i].gamestate.ports[2]].y>>)

\* Frame 151 of the halo stream is returned with the ports entered in the
\* order 1, 3, 2, 4: the distance is the one between ports 1 and 3 (90, in
\* quarters), not the one between ports 1 and 2.
C21_ThirdPortBeforeSecond ==
    /\ hist # <<>> /\ hist[Len(hist)].via = "bookend"
    /\ out # None /\ out.frame = 151
    /\ out.ports = <<1, 3, 2, 4>>
    /\ out.distance = 360


\* The i-th snapshot returned is of a game and was completed by a game
\* event or by the transport's end of frame, not by a menu event.
EmittedGameplay(i) ==
    /\ hist[i].via # "menu_event"
    /\ hist[i].gamestate.menu_state = "IN_GAME"

\* The snapshots of a game returned before the i-th.
GameplayBefore(i) == {j \in 1..(i - 1) : EmittedGameplay(j)}

\* The moonwalk warning of `port` in the i-th snapshot returned is allowed by
\* the snapshot `before`: the port dashes, was in `before`, and neither
\* dashed nor turned there.
WarningAllowed(i, before, port) ==
    /\ hist[i].gamestate.player[port].action = DASHING
    /\ port \in DOMAIN before.player
    /\ before.player[port].action \notin {DASHING, TURNING}

\* C22: in a gameplay snapshot that step() returns, a port has the moonwalk
\* warning only if its action is dashing and, in the gameplay snapshot
\* returned before, the port was present with an action that is neither
\* dashing nor turning; a port whose action is not dashing, or that was not
\* in the snapshot before (or has none before), has no warning.
C22_WarningOnlyOnNewDash ==
    \A i \in 1..Len(hist) :
       EmittedGameplay(i) =>
          \A port \in DOMAIN hist[i].gamestate.player :
             hist[i].gamestate.player[port].moonwalkwarning =>
                /\ GameplayBefore(i) # {}
                /\ WarningAllowed(i,
                       hist[CHOOSE j \in GameplayBefore(i) :
                               \A k \in GameplayBefore(i) : k <= j].gamestate,
                       port)

\* A gameplay snapshot with a moonwalk warning has been returned.
C22_WarningReturned ==
    \E i \in 1..Len(hist) :
       /\ EmittedGameplay(i)
       /\ \E port \in DOMAIN hist[i].gamestate.player :
             hist[i].gamestate.player[port].moonwalkwarning


\* The action of a player is none of the attacks NEUTRAL_ATTACK_1..DAIR.
NoStandardAttack(playerstate) ==
    playerstate.action < NEUTRAL_ATTACK_1 \/ playerstate.action > DAIR

\* C23: in every snapshot that step() has returned, for a game event, a menu
\* event or the transport's end of frame, a player whose action lies outside
\* NEUTRAL_ATTACK_1..DAIR has the interruptible flag false, whatever value a
\* new PlayerState has in it.
C23_NoIasaOutsideAttacks ==
    \A i \in 1..Len(hist) :
       \A port \in DOMAIN hist[i].gamestate.player :
          NoStandardAttack(hist[i].gamestate.player[port])
             => ~hist[i].gamestate.player[port].iasa

\* A new PlayerState has the flag set, and step() has returned a snapshot of
\* a game in which the players in NEUTRAL_ATTACK_1 and in DAIR still have it
\* and a snapshot in which the players in the actions next to the two have
\* lost it.
C23_SetFlagCleared ==
    /\ self.player_iasa
    /\ \E i \in 1..Len(hist) :
          /\ hist[i].via = "bookend"
          /\ \A a \in {NEUTRAL_ATTACK_1, DAIR} :
                \E port \in DOMAIN hist[i].gamestate.player :
                   /\ hist[i].gamestate.player[port].action = a
                   /\ hist[i].gamestate.player[port].iasa
    /\ \E i \in 1..Len(hist) :
          /\ hist[i].via = "bookend"
          /\ \A a \in {NEUTRAL_ATTACK_1 - 1, DAIR + 1} :
                \E port \in DOMAIN hist[i].gamestate.player :
                   /\ hist[i].gamestate.player[port].action = a
                   /\ ~hist[i].gamestate.player[port].iasa


\* The i-th snapshot returned was returned for a menu event.
MenuSnapshot(i) == hist[i].via = "menu_event"

\* No player of the snapshot that is not a CPU has a CPU level other than 0.
OnlyCpusHaveLevel(gamestate) ==
    \A port \in DOMAIN gamestate.player :
       gamestate.player[port].controller_status # "CONTROLLER_CPU"
          => gamestate.player[port].cpu_level = 0

\* The CPU level of a CPU player is the one of the slider: computed from
\* cursor x while the slider is dragged, which needs cursor y below 0, and 1
\* otherwise.
LevelOfSlider(playerstate, port) ==
    /\ playerstate.is_holding_cpu_slider => playerstate.cursor_y < 0
    /\ playerstate.controller_status = "CONTROLLER_CPU" =>
          playerstate.cpu_level
             = IF playerstate.is_holding_cpu_slider
               THEN SliderLevel(self.uint8_wraps, Clip(playerstate.cursor_x),
                                port - 1)
               ELSE 1

\* C24 as stated: after a menu event no player that is not a CPU has a level
\* other than 0, and the slider is computed on the online character-select
\* screen only: on the local character-select screen the four players are
\* left as they were created, no slider dragged and level 0.
C24_SliderOnlineOnly ==
    \A i \in 1..Len(hist) :
       MenuSnapshot(i) =>
          /\ OnlyCpusHaveLevel(hist[i].gamestate)
          /\ hist[i].gamestate.menu_state = "CHARACTER_SELECT" =>
                \A port \in DOMAIN hist[i].gamestate.player :
                   /\ ~hist[i].gamestate.player[port].is_holding_cpu_slider
                   /\ hist[i].gamestate.player[port].cpu_level = 0

\* C24, amended: in a snapshot returned for a menu event no player that is
\* not a CPU has a level other than 0, and on both character-select screens,
\* local and online, every CPU player has the level of the slider.
C24_SliderOnBothSelectScreens ==
    \A i \in 1..Len(hist) :
       MenuSnapshot(i) =>
          /\ OnlyCpusHaveLevel(hist[i].gamestate)
          /\ hist[i].gamestate.menu_state \in CssMenus =>
                \A port \in DOMAIN hist[i].gamestate.player :
                   LevelOfSlider(hist[i].gamestate.player[port], port)

\* A menu event of the local character-select screen has been returned with
\* a CPU that drags the slider to a level above 1 and with a player that is
\* no CPU.
C24_LocalSliderDragged ==
    \E i \in 1..Len(hist) :
       /\ MenuSnapshot(i)
       /\ hist[i].gamestate.menu_state = "CHARACTER_SELECT"
       /\ \E port \in DOMAIN hist[i].gamestate.player :
             /\ hist[i].gamestate.player[port].controller_status = "CONTROLLER_CPU"
             /\ hist[i].gamestate.player[port].is_holding_cpu_slider
             /\ hist[i].gamestate.player[port].cpu_level > 1
       /\ \E port \in DOMAIN hist[i].gamestate.player :
             hist[i].gamestate.player[port].controller_status # "CONTROLLER_CPU"


\* C25: every call of the dispatcher terminates: no call reaches an
\* iteration of its loop that neither returns nor consumes a byte, whatever
\* the buffer and the size table, a recognized command with the length 0 of
\* a command never registered included.
C25_DispatcherTerminates == pc # "hang"


\* The records decoded so far, in all deliveries.
AllDecoded == UNION {DecodedRecords(received[k]) : k \in 1..Len(received)}

\* The record decoded last is a frame-bookend; the bookend decoded before it,
\* 0 for none.
BookendBefore ==
    LET before == {j \in AllDecoded :
                     /\ j < LastOf(AllDecoded)
                     /\ Streams[received[1].stream][j][1] = FRAME_BOOKEND}
    IN  IF before = {} THEN 0 ELSE LastOf(before)

\* The records of kind `command` decoded after the bookend before the last.
DecodedSince(command) ==
    {j \in AllDecoded :
       j > BookendBefore /\ Streams[received[1].stream][j][1] = command}

\* step() has just returned a snapshot at a frame-bookend, every snapshot so
\* far was returned at a frame-bookend, and the deliveries were whole
\* records.
ReturnedAtBookend ==
    /\ ReturnedForGameEvent /\ WholeRecords
    /\ last_call.why = "bookend"
    /\ \A i \in 1..Len(hist) : hist[i].via = "bookend"

\* C26: a snapshot returned at a frame-bookend holds the projectiles and the
\* players of the records decoded after the bookend before it and no others,
\* also when the frame of that bookend was discarded as not newer than the
\* frame returned last.
C26_DiscardedFrameLeavesNoTrace ==
    ReturnedAtBookend =>
       /\ Len(out.projectiles) = Cardinality(DecodedSince(ITEM_UPDATE))
       /\ DOMAIN out.player
            = {U8(Streams[received[1].stream][j], \H5) + 1 :
                 j \in DecodedSince(PRE_FRAME) \cup DecodedSince(POST_FRAME)}


\* The snapshot returned last for a frame of a game; a new snapshot when
\* there is none yet.
LastGameplayReturned ==
    LET emitted == {i \in 1..Len(hist) : EmittedGameplay(i)}
    IN  IF emitted = {} THEN NewGameState ELSE hist[LastOf(emitted)].gamestate

\* The step hands a post-frame record to its decoder, in a run of deliveries
\* of whole records from the payload descriptor on.
PostFrameDecoded ==
    /\ received' # received
    /\ WholeRecords'
    /\ \E k \in 1..Len(last_call'.trace) : last_call'.trace[k][1] = POST_FRAME

\* C27: when a step decodes a post-frame record, the previous snapshot its
\* lookback reads is the snapshot returned last for a frame of a game: not
\* the snapshot being built, and so not the snapshot of a discarded frame.
C27_LookbackReadsLastReturned ==
    [][PostFrameDecoded =>
          /\ ~self.prev_alias
          /\ self.prev_gamestate = LastGameplayReturned]_vars


\* The decoded records of kind `command` behind record j.
DecodedAfter(j, command) ==
    {h \in AllDecoded : h > j /\ Streams[received[1].stream][h][1] = command}

\* Every delivery so far was a run of whole records of a stream other than
\* the odd one, the first one from the payload descriptor on, and no
\* exception has left step(): the dispatcher has decoded record by record.
DecodedByRecord ==
    /\ received # <<>>
    /\ received[1].first = 1
    /\ \A k \in 1..Len(received) :
         /\ received[k].stream # "odd"
         /\ received[k].cut = 0 /\ received[k].lead = 0
    /\ exc = ""

\* Such a delivery has just been handled, and a session-start record has
\* been decoded.
AfterGameStart ==
    /\ last_msg = "game_event" /\ DecodedByRecord
    /\ DecodedAfter(0, GAME_START) # {}

\* The record decoded last is a session-start record.
GameStartLast ==
    /\ AfterGameStart
    /\ Streams[received[1].stream][LastOf(AllDecoded)][1] = GAME_START

\* The record decoded last is the first frame-bookend behind a session-start
\* record, and the delivery handled last held it.
FirstBookendOfGame ==
    /\ AfterGameStart
    /\ Streams[received[1].stream][LastOf(AllDecoded)][1] = FRAME_BOOKEND
    /\ LastOf(AllDecoded) \in DecodedRecords(received[Len(received)])
    /\ DecodedAfter(BookendBefore, GAME_START) # {}

\* The frame of the bookend decoded last has been returned at the bookend, or
\* its index is not above -10000.
FirstFrameReturned ==
    \/ /\ pc = "idle" /\ out # None
       /\ last_call.why = "bookend"
       /\ self.frame = out.frame
    \/ /\ pc = "in_step"
       /\ temp_gamestate.frame <= NO_FRAME

\* C28 as stated: a session-start record sets the last delivered frame index
\* to -10000, and the frame of the first bookend behind a session-start
\* record is returned at that bookend whenever its index is above -10000, in
\* either mode.
C28_FirstBookendReturned ==
    /\ GameStartLast => self.frame = NO_FRAME
    /\ FirstBookendOfGame => FirstFrameReturned

\* C28 amended: a session-start record sets the last delivered frame index to
\* -10000.  Outside legacy mode it stays there until a bookend is accepted,
\* so the frame of the first bookend behind a session-start record is
\* returned at that bookend whenever its index is above -10000, also when the
\* index is not above the one returned last for the game before.  In legacy
\* mode the post-frame decoder has stored the index of the frame as the last
\* delivered one, so the index of the snapshot being built is not above it
\* and the bookend returns nothing: step() goes on to the next message.
C28_GameStartResetsFrame ==
    /\ GameStartLast => self.frame = NO_FRAME
    /\ (/\ AfterGameStart /\ ~self.use_manual_bookends
        /\ DecodedAfter(LastOf(DecodedAfter(0, GAME_START)), FRAME_BOOKEND) = {})
         => self.frame = NO_FRAME
    /\ (FirstBookendOfGame /\ ~self.use_manual_bookends) => FirstFrameReturned
    /\ (FirstBookendOfGame /\ self.use_manual_bookends) =>
          /\ pc = "in_step"
          /\ last_call.why # "bookend"
          /\ temp_gamestate # None
          /\ temp_gamestate.frame <= self.frame

\* The first frame of the second game of the rematch stream, frame -123, has
\* been returned at its bookend after frame 150 of the first game.
C28_SecondGameReturned ==
    /\ FirstBookendOfGame /\ ~self.use_manual_bookends
    /\ received[1].stream = "rematch"
    /\ Len(hist) = 2
    /\ hist[1].frame = 150 /\ hist[1].games = 1
    /\ hist[2].frame = FirstFrame /\ hist[2].games = 2
    /\ hist[2].via = "bookend"
    /\ out.frame = FirstFrame


\* step() hands a frame_end message of the transport to its handlers.
FrameEndHandled ==
    pc = "in_step" /\ messages' # messages /\ last_msg' = "frame_end"

\* Every delivery so far was a run of whole records, the first one from the
\* payload descriptor on.
UncutDeliveries ==
    /\ received # <<>>
    /\ received[1].first = 1
    /\ \A k \in 1..Len(received) : received[k].cut = 0 /\ received[k].lead = 0

\* A pre-frame or a post-frame record has been decoded behind the
\* session-start record decoded last.
FrameSeenSinceGameStart ==
    /\ DecodedAfter(0, GAME_START) # {}
    /\ DecodedAfter(LastOf(DecodedAfter(0, GAME_START)), PRE_FRAME)
         \cup DecodedAfter(LastOf(DecodedAfter(0, GAME_START)), POST_FRAME) # {}

\* C29: for a frame_end message of the transport step() returns the snapshot
\* being built exactly when legacy-bookend mode is on and the last-seen
\* frame index is not -10000, which takes a pre-frame or post-frame record
\* decoded since the session start; otherwise, and always outside legacy
\* mode, the message changes nothing and step() goes on to the next message.
C29_FrameEndNeedsLegacyFrame ==
    [][FrameEndHandled =>
         /\ hist' # hist <=> (self.use_manual_bookends /\ self.frame # NO_FRAME)
         /\ hist' # hist =>
              /\ pc' = "idle"
              /\ hist' = Append(hist, hist'[Len(hist')])
              /\ hist'[Len(hist')].via = "frame_end"
              /\ out' = hist'[Len(hist')].gamestate
              /\ out' = fixiasa(fixframeindexing(temp_gamestate))
              /\ UncutDeliveries => FrameSeenSinceGameStart
         /\ hist' = hist =>
              /\ pc' = "in_step"
              /\ temp_gamestate' = temp_gamestate /\ out' = out]_vars

\* A frame_end message was ignored in legacy-bookend mode, before a frame of
\* the session was seen.
C29_FrameEndBeforeFrame ==
    /\ last_msg = "frame_end" /\ pc = "in_step"
    /\ self.use_manual_bookends /\ self.frame = NO_FRAME
    /\ hist = <<>>

\* A frame_end message was ignored outside legacy mode, with a frame index
\* seen and a snapshot being built.
C29_FrameEndOutsideLegacy ==
    /\ last_msg = "frame_end" /\ pc = "in_step"
    /\ ~self.use_manual_bookends /\ self.frame = FirstFrame
    /\ Len(hist) = 1 /\ hist[1].via = "bookend"
    /\ temp_gamestate.player # <<>>

\* In legacy-bookend mode the first message brought the session start and
\* the post-frame of frame -123, and the frame_end message after it returned
\* the snapshot of that frame.
C29_FrameEndAfterFirstFrame ==
    /\ last_msg = "frame_end" /\ pc = "idle"
    /\ self.use_manual_bookends /\ self.frame = FirstFrame
    /\ messages = 2 /\ Len(received) = 1
    /\ Len(hist) = 1 /\ hist[1].via = "frame_end"
    /\ out.frame = FirstFrame /\ DOMAIN out.player = {1}

====
